---- MODULE Spec2Model ----
(***************************************************************************)
(* The ingestion-to-embedding pipeline of business-turku-backend/script:   *)
(* company/index.js (registry fetch, translation, vectorize, store) and    *)
(* investor/index.js (roster load, vectorize, store), as one state machine *)
(* with one action per await point of the code.  The external services     *)
(* (Statistics Finland, PRH listing, DeepL, Voyage, Supabase) are the      *)
(* environment: their answers are drawn from bounded sets.                 *)
(***************************************************************************)
EXTENDS Integers, Sequences, FiniteSets, TLC

VARIABLES
    kind,                    \* which script runs: "company" | "investor"
    env,                     \* process.env: the configuration of the run
    world,                   \* the data the external services hold in this behaviour
    pc,                      \* position of the single thread of control
    run,                     \* number of the process (pipeline run), from 1
    industryClassifications, \* module-level cache: NULL or a map (a set of entries)
    classifications,         \* fetchCompaniesFromAPI: what fetchIndustryClassifications returned
    maxResults,              \* fetchCompaniesFromAPI: its parameter
    allFetchedCompanies,     \* fetchCompaniesFromAPI: accumulated filter-passing records
    page,                    \* fetchCompaniesFromAPI: page counter
    companies,               \* main: the entities handed on (processedCompanies / investors)
    texts,                   \* main: companyTexts / investorTexts
    allVectors,              \* vectorizeWithVoyage: vectors accumulated so far
    vi,                      \* vectorizeWithVoyage: loop index i (0-based)
    vectors,                 \* main: what vectorizeWithVoyage returned
    idMap,                   \* storeInSupabase: businessIdToCompanyId, a set of <<key, id>>
    embeddingData,           \* storeInSupabase: rows to write, after the filter
    si,                      \* storeInSupabase: loop index i (0-based)
    db,                      \* the store: its four tables, each a sequence of rows
    nextId,                  \* the store: next surrogate id (BIGSERIAL / gen_random_uuid)
    deeplCalls,              \* number of translation requests the provider has answered
    reqLog,                  \* history: every external request and timer wait, in order
    exitCode,                \* "running", then the process exit code "0" or "1"
    call                     \* translateToEnglish called alone: argument, answer, result

vars == <<kind, env, world, pc, run, industryClassifications, classifications,
          maxResults, allFetchedCompanies, page, companies, texts, allVectors,
          vi, vectors, idMap, embeddingData, si, db, nextId, deeplCalls,
          reqLog, exitCode, call>>

(***************************************************************************)
(* JavaScript values.  null and undefined are one token where the code     *)
(* only tests truthiness; the empty string is falsy too.                    *)
(***************************************************************************)
NULL == "<null>"

Truthy(s) == s # NULL /\ s # ""

\* a || b on strings
Or2(a, b) == IF Truthy(a) THEN a ELSE b

Or3(a, b, c) == Or2(a, Or2(b, c))

Min(a, b) == IF a < b THEN a ELSE b

\* Array.prototype.slice(from, to), 0-based: a negative bound counts from the
\* end of the array, and the bounds are clamped to 0..length
Slice(s, from, to) ==
    LET Rel(k) == IF k < 0 THEN (IF Len(s) + k < 0 THEN 0 ELSE Len(s) + k)
                  ELSE Min(k, Len(s))
    IN SubSeq(s, Rel(from) + 1, Rel(to))

\* Array.prototype.findIndex, 1-based: the first index whose element satisfies
\* P, 0 when none does (find(...) is the element at that index, or undefined)
FindIdx(s, P(_)) ==
    LET hits == {i \in 1..Len(s) : P(s[i])}
    IN IF hits = {} THEN 0 ELSE CHOOSE i \in hits : \A j \in hits : i <= j

Range(s) == {s[i] : i \in 1..Len(s)}

(***************************************************************************)
(* Bounds of the model.                                                    *)
(***************************************************************************)
\* the listing service holds at most this many full pages before its tail page
MaxFullPages == 51

\* the translation provider answers at most this many requests before it
\* starts to refuse (rate limit)
MaxQuota == 2

\* pipeline runs (processes) in one behaviour
MaxRuns == 2

\* entities handed to storeInSupabase alone
MaxEntities == 3

\* texts handed to vectorizeWithVoyage alone: up to two full chunks and one more
MaxTexts == 201

\* requests a process has sent before a further call of fetch is explored
MaxRequests == 6

\* how far below 0 the index of the embedding batch loop is followed
MaxStepsBack == 4

(***************************************************************************)
(* Program constants.                                                      *)
(***************************************************************************)
resultsPerPage == 100

PageLimit == 50

PageDelayMs == 200

YearCutoff == 2020

MainTarget == 500

batchSize == 100

VoyageDelayMs == 60000

DefaultBatchSize == 50

(***************************************************************************)
(* The PRH listing service.  A record is referred to by <<page, index>>;   *)
(* its content is a function of the world.  Pages 1..world.full are full   *)
(* pages, odd ones of kind world.kindOdd and even ones of world.kindEven;  *)
(* page world.full + 1 is the tail page; every later page is empty.        *)
(***************************************************************************)
FullKinds == {"fullAll", "fullNone", "fullMixed"}

TailKinds == {"empty", "short", "one", "odd"}

PageKind(w, p) ==
    IF p <= w.full THEN (IF p % 2 = 1 THEN w.kindOdd ELSE w.kindEven)
    ELSE IF p = w.full + 1 THEN w.tail
    ELSE "empty"

KindLen(k) ==
    CASE k \in FullKinds -> resultsPerPage
      [] k = "short" -> 3
      [] k = "one" -> 1
      [] k = "odd" -> 4
      [] OTHER -> 0

\* the class of the i-th record of a page of kind k
KindClass(k, i) ==
    CASE k = "fullAll" -> IF i % 2 = 1 THEN "ok" ELSE "flat"
      [] k = "fullNone" ->
            (CASE i % 3 = 1 -> "old" [] i % 3 = 2 -> "nocode" [] OTHER -> "nodate")
      [] k = "fullMixed" ->
            (CASE i % 5 = 1 -> "ok" [] i % 5 = 2 -> "old" [] i % 5 = 3 -> "nocode"
               [] i % 5 = 4 -> "unk" [] OTHER -> "nodate")
      [] k = "short" ->
            (CASE i = 1 -> "ok" [] i = 2 -> "nocode" [] OTHER -> "flat")
      [] k = "odd" ->
            (CASE i = 1 -> "noid" [] i = 2 -> "ok" [] i = 3 -> "novalue"
               [] OTHER -> "enblank")
      [] OTHER -> "unk"

\* response.data of GET companies?page=p: the records of the page, as references
PageData(w, p) == [i \in 1..KindLen(PageKind(w, p)) |-> <<p, i>>]

ClassOf(w, ref) == KindClass(PageKind(w, ref[1]), ref[2])

KeyOf(ref) == "b" \o ToString(ref[1]) \o "-" \o ToString(ref[2])

(***************************************************************************)
(* Raw registry records.  Plain strings are TLA+ strings; the parts of an  *)
(* address are token sequences (words, "," and " ") so that the spacing    *)
(* the code produces can be observed.  A value that is an object where a   *)
(* string is expected is the token OBJECT.                                 *)
(***************************************************************************)
OBJECT == "[object Object]"

NoBusinessLine == [present |-> FALSE, type |-> "", hasDescriptions |-> FALSE,
                   descriptions |-> <<>>]

BusinessLine(code, descs) == [present |-> TRUE, type |-> code,
                              hasDescriptions |-> TRUE, descriptions |-> descs]

Address(t, street, bn, entrance, apt, pc0, offices) ==
    [type |-> t, street |-> street, buildingNumber |-> bn, entrance |-> entrance,
     apartmentNumber |-> apt, postCode |-> pc0, postOffices |-> offices]

NestedId(v, d) == [shape |-> "nested", value |-> v, registrationDate |-> d]

\* the record has no businessId field
NoId == [shape |-> "none", value |-> "", registrationDate |-> ""]

FlatId(v) == [shape |-> "flat", value |-> v, registrationDate |-> ""]

\* the record of class cls whose business identifier is key
RawRecord(cls, key) ==
    CASE cls = "ok" ->
           [businessId |-> NestedId(key, "2021-06-15"), registrationDate |-> "",
            mainBusinessLine |-> BusinessLine("62010",
                << [languageCode |-> "1", description |-> "Ohjelmistojen suunnittelu"],
                   [languageCode |-> "3", description |-> "Computer programming"] >>),
            names |-> << [type |-> "1", endDate |-> "2022-01-01", name |-> "Old Oy"],
                         [type |-> "1", endDate |-> "", name |-> "Active Oy"] >>,
            addresses |-> << Address(2, <<"PL">>, <<"1">>, <<>>, <<>>, <<"20100">>,
                                     << [languageCode |-> "1", city |-> <<"TURKU">>] >>),
                             Address(1, <<"Mannerheimintie">>, <<"10">>, <<>>, <<>>,
                                     <<"00100">>,
                                     << [languageCode |-> "1", city |-> <<"HELSINKI">>],
                                        [languageCode |-> "3", city |-> <<"Helsinki">>] >>)
                          >>]
      [] cls = "flat" ->
           [businessId |-> FlatId(key), registrationDate |-> "2020-01-01",
            mainBusinessLine |-> BusinessLine("43210",
                << [languageCode |-> "1", description |-> "Sähköasennus"] >>),
            names |-> << [type |-> "2", endDate |-> "", name |-> "Aux Oy"] >>,
            addresses |-> << Address(2, <<"Kauppakatu">>, <<"5">>, <<"B">>, <<"12">>,
                                     <<>>, << [languageCode |-> "1", city |-> <<"TURKU">>] >>)
                          >>]
      [] cls = "old" ->
           [businessId |-> NestedId(key, "2019-12-31"), registrationDate |-> "",
            mainBusinessLine |-> BusinessLine("62010", <<>>),
            names |-> << [type |-> "1", endDate |-> "", name |-> "Vanha Oy"] >>,
            addresses |-> <<>>]
      [] cls = "nocode" ->
           [businessId |-> NestedId(key, "2021-06-15"), registrationDate |-> "",
            mainBusinessLine |-> NoBusinessLine,
            names |-> << [type |-> "1", endDate |-> "", name |-> "Koodi Oy"] >>,
            addresses |-> <<>>]
      [] cls = "nodate" ->
           [businessId |-> NestedId(key, ""), registrationDate |-> "",
            mainBusinessLine |-> BusinessLine("10000", <<>>),
            names |-> <<>>, addresses |-> <<>>]
      [] cls = "noid" ->
           [businessId |-> NoId, registrationDate |-> "2021-06-15",
            mainBusinessLine |-> BusinessLine("62010", <<>>),
            names |-> << [type |-> "1", endDate |-> "", name |-> "Nimeton Oy"] >>,
            addresses |-> <<>>]
      [] cls = "novalue" ->
           [businessId |-> NestedId("", "2021-06-15"), registrationDate |-> "",
            mainBusinessLine |-> BusinessLine("62010", <<>>),
            names |-> << [type |-> "1", endDate |-> "", name |-> "Arvoton Oy"] >>,
            addresses |-> <<>>]
      [] cls = "enblank" ->
           [businessId |-> NestedId(key, "2021-06-15"), registrationDate |-> "",
            mainBusinessLine |-> BusinessLine("68100", <<>>),
            names |-> << [type |-> "1", endDate |-> "", name |-> "Kiinteisto Oy"] >>,
            addresses |-> <<>>]
      [] OTHER -> \* "unk": a code the classification table does not hold, no name
           [businessId |-> NestedId(key, "2020-01-01"), registrationDate |-> "",
            mainBusinessLine |-> [present |-> TRUE, type |-> "99999",
                                  hasDescriptions |-> FALSE, descriptions |-> <<>>],
            names |-> <<>>,
            addresses |-> << Address(1, <<>>, <<>>, <<>>, <<>>, <<"20100">>, <<>>) >>]

Classes == {"ok", "flat", "old", "nocode", "nodate", "unk", "noid", "novalue",
            "enblank"}

\* the classes of records that carry no identifier value
Unidentified == {"noid", "novalue"}

\* one record per class, built once; the records of the listing differ from
\* it in their identifier only
Template == [cls \in Classes |-> RawRecord(cls, "")]

RecordAt(w, ref) ==
    IF ClassOf(w, ref) \in Unidentified THEN Template[ClassOf(w, ref)]
    ELSE [Template[ClassOf(w, ref)] EXCEPT !.businessId.value = KeyOf(ref)]

\* new Date(regDate).getFullYear() for the date strings of the model, in the
\* calendar of the process (a time zone at or east of UTC); -1 stands for NaN
GetFullYear(d) ==
    CASE d = "2019-12-31" -> 2019
      [] d = "2020-01-01" -> 2020
      [] d = "2021-06-15" -> 2021
      [] OTHER -> -1

\* company.businessId?.registrationDate || company.registrationDate
RegDateOf(company) ==
    Or2(IF company.businessId.shape = "nested"
        THEN company.businessId.registrationDate ELSE NULL,
        company.registrationDate)

\* company.mainBusinessLine?.type
IndustryCodeOf(company) ==
    IF company.mainBusinessLine.present THEN company.mainBusinessLine.type ELSE NULL

IsValidCompany_Either(company) ==
    LET regDate == RegDateOf(company)
        year == IF Truthy(regDate) THEN GetFullYear(regDate) ELSE 0
    IN year >= YearCutoff \/ Truthy(IndustryCodeOf(company))

\* the predicate of pageData.filter: registered in or after 2020 AND has a code
IsValidCompany(company) ==
    LET regDate == RegDateOf(company)
        year == IF Truthy(regDate) THEN GetFullYear(regDate) ELSE 0
    IN year >= YearCutoff /\ Truthy(IndustryCodeOf(company))

(***************************************************************************)
(* Per-record normalisation (fetchCompaniesFromAPI, the processing loop).  *)
(***************************************************************************)
\* company.businessId?.value || company.businessId || ''
BusinessIdOf(company) ==
    LET b == company.businessId
    IN CASE b.shape = "nested" -> IF Truthy(b.value) THEN b.value ELSE OBJECT
         [] b.shape = "flat" -> Or2(b.value, "")
         [] OTHER -> ""

\* the active name (type '1', no endDate), else the first name, else 'Unknown'
CompanyNameOf_First(company) ==
    IF Len(company.names) > 0 THEN Or2(company.names[1].name, "Unknown") ELSE "Unknown"

CompanyNameOf(company) ==
    IF Len(company.names) > 0
    THEN LET a == FindIdx(company.names, LAMBDA n : n.type = "1" /\ ~Truthy(n.endDate))
         IN Or3(IF a > 0 THEN company.names[a].name ELSE NULL,
                company.names[1].name, "Unknown")
    ELSE "Unknown"

\* the English description (languageCode '3'), else the first, else ''
DescriptionOf(company) ==
    LET m == company.mainBusinessLine
    IN IF m.present /\ m.hasDescriptions
       THEN LET e == FindIdx(m.descriptions, LAMBDA d : d.languageCode = "3")
            IN Or3(IF e > 0 THEN m.descriptions[e].description ELSE NULL,
                   IF Len(m.descriptions) > 0 THEN m.descriptions[1].description ELSE NULL,
                   "")
       ELSE ""

IsSpace(t) == t = " "

RECURSIVE TrimLeft(_)
TrimLeft(s) == IF s # <<>> /\ IsSpace(Head(s)) THEN TrimLeft(Tail(s)) ELSE s

RECURSIVE TrimRight(_)
TrimRight(s) ==
    IF s # <<>> /\ IsSpace(s[Len(s)]) THEN TrimRight(SubSeq(s, 1, Len(s) - 1)) ELSE s

\* String.prototype.trim
Trim(s) == TrimRight(TrimLeft(s))

\* s.replace(/^,\s*/, '')
DropLeadingComma(s) == IF s # <<>> /\ Head(s) = "," THEN TrimLeft(Tail(s)) ELSE s

\* s.replace(/,\s*$/, '')
DropTrailingComma(s) ==
    LET t == TrimRight(s)
    IN IF t # <<>> /\ t[Len(t)] = "," THEN SubSeq(t, 1, Len(t) - 1) ELSE s

\* the city of the post office with languageCode '3', else '1', else the first
CityOf(a) ==
    LET en == FindIdx(a.postOffices, LAMBDA o : o.languageCode = "3")
        fi == FindIdx(a.postOffices, LAMBDA o : o.languageCode = "1")
    IN CASE en > 0 /\ a.postOffices[en].city # <<>> -> a.postOffices[en].city
         [] fi > 0 /\ a.postOffices[fi].city # <<>> -> a.postOffices[fi].city
         [] Len(a.postOffices) > 0 -> a.postOffices[1].city
         [] OTHER -> <<>>

\* the single-line address of one address entry
ComposeAddress(a) ==
    LET entrance == IF a.entrance # <<>> THEN <<" ">> \o a.entrance ELSE <<>>
        apartmentNumber ==
            IF a.apartmentNumber # <<>> THEN <<" ">> \o a.apartmentNumber ELSE <<>>
        addressParts == a.street \o a.buildingNumber \o entrance \o apartmentNumber
    IN DropTrailingComma(DropLeadingComma(Trim(
           addressParts \o <<",", " ">> \o a.postCode \o <<" ">> \o CityOf(a))))

\* the visiting address (type 1), else the first address, composed; '' if none
AddressOf(company) ==
    IF Len(company.addresses) > 0
    THEN LET v == FindIdx(company.addresses, LAMBDA a : a.type = 1)
         IN ComposeAddress(company.addresses[IF v > 0 THEN v ELSE 1])
    ELSE <<>>

\* company.businessId?.registrationDate || company.registrationDate || null
RegistrationDateOf(company) == Or2(RegDateOf(company), NULL)

(***************************************************************************)
(* The Statistics Finland classification service and the cache.            *)
(***************************************************************************)
NoNote == [hasIncludes |-> FALSE, lang |-> <<>>, includes |-> <<>>]

Item(code, names, note) ==
    [isNull |-> FALSE, code |-> code, hasNames |-> TRUE, names |-> names,
     hasNotes |-> note.hasIncludes, note |-> note]

NullItem == [isNull |-> TRUE, code |-> "", hasNames |-> FALSE, names |-> <<>>,
             hasNotes |-> FALSE, note |-> NoNote]

ClassificationItems ==
    << Item("62010", << [lang |-> "fi", name |-> "Ohjelmistojen suunnittelu ja valmistus"],
                        [lang |-> "en", name |-> "Computer programming activities"] >>,
            [hasIncludes |-> TRUE, lang |-> <<"fi", "en">>,
             includes |-> <<"ohjelmointi", "programming">>]),
       Item("43210", << [lang |-> "fi", name |-> "Sähköasennus"] >>,
            [hasIncludes |-> TRUE, lang |-> <<"fi">>, includes |-> <<"asennus">>]),
       Item("10000", << [lang |-> "fi", name |-> "Teollisuus"] >>, NoNote),
       Item("47110", << [lang |-> "fi", name |-> "Päivittäistavarakauppa"] >>, NoNote),
       \* an item whose English entry carries no name
       Item("68100", << [lang |-> "fi", name |-> "Kiinteistökauppa"],
                        [lang |-> "en", name |-> ""] >>, NoNote),
       [isNull |-> FALSE, code |-> "70000", hasNames |-> FALSE, names |-> <<>>,
        hasNotes |-> FALSE, note |-> NoNote],
       Item("", << [lang |-> "en", name |-> "Heading without code"] >>, NoNote) >>

\* what the classification request answers in scenario st: ok tells whether the
\* request returned, data is response.data as an array (a single object wrapped)
StatResponse(st) ==
    CASE st = "ok" -> [ok |-> TRUE, data |-> ClassificationItems]
      [] st = "single" -> [ok |-> TRUE, data |-> <<ClassificationItems[2]>>]
      [] st = "empty" -> [ok |-> TRUE, data |-> <<>>]
      [] st = "bad" -> [ok |-> TRUE,
                        data |-> <<ClassificationItems[1], NullItem, ClassificationItems[2]>>]
      [] OTHER -> [ok |-> FALSE, data |-> <<>>]

\* the label with the Finnish name preferred
ItemName_FinnishFirst(item) ==
    IF item.hasNames
    THEN LET en == FindIdx(item.names, LAMBDA n : n.lang = "en")
             fi == FindIdx(item.names, LAMBDA n : n.lang = "fi")
         IN Or3(IF fi > 0 THEN item.names[fi].name ELSE NULL,
                IF en > 0 THEN item.names[en].name ELSE NULL, "")
    ELSE ""

\* englishName?.name || finnishName?.name || ''
ItemName(item) ==
    IF item.hasNames
    THEN LET en == FindIdx(item.names, LAMBDA n : n.lang = "en")
             fi == FindIdx(item.names, LAMBDA n : n.lang = "fi")
         IN Or3(IF en > 0 THEN item.names[en].name ELSE NULL,
                IF fi > 0 THEN item.names[fi].name ELSE NULL, "")
    ELSE ""

\* note.lang?.indexOf(l) || -1, 0-based: index 0 is falsy and becomes -1
LangIndex(note, l) ==
    LET k == FindIdx(note.lang, LAMBDA x : x = l) - 1
    IN IF k <= 0 THEN -1 ELSE k

ItemDescription(item) ==
    IF item.hasNotes /\ item.note.hasIncludes
    THEN LET note == item.note
             englishIndex == LangIndex(note, "en")
             finnishIndex == LangIndex(note, "fi")
             At(k) == IF k + 1 <= Len(note.includes) THEN note.includes[k + 1] ELSE ""
         IN IF englishIndex >= 0 THEN At(englishIndex)
            ELSE IF finnishIndex >= 0 THEN At(finnishIndex)
            ELSE At(0)
    ELSE ""

\* !item.classificationItemNames?.some(n => n.lang === 'en')
ItemIsFinnish(item) ==
    ~(item.hasNames /\ \E i \in 1..Len(item.names) : item.names[i].lang = "en")

ItemEntry(item) ==
    [name |-> ItemName(item), description |-> ItemDescription(item),
     isFinnish |-> ItemIsFinnish(item)]

\* the items before the first null item (forEach throws there), all if none
ItemsBeforeThrow(data) ==
    LET n == FindIdx(data, LAMBDA it : it.isNull)
    IN IF n = 0 THEN data ELSE SubSeq(data, 1, n - 1)

\* data.forEach(item => { if (item.code) map[item.code] = entry }): a later item
\* of the same code overwrites an earlier one
BuildMap(items) ==
    LET codes == {items[i].code : i \in {j \in 1..Len(items) : Truthy(items[j].code)}}
        Last(c) == CHOOSE i \in 1..Len(items) :
                      /\ items[i].code = c
                      /\ \A j \in 1..Len(items) : items[j].code = c => j <= i
    IN [c \in codes |-> ItemEntry(items[Last(c)])]

EmptyMap == [c \in {} |-> ItemEntry(NullItem)]

NotLoaded == [loaded |-> FALSE, map |-> EmptyMap]

\* fetchIndustryClassifications returning whatever the loop had built when it
\* threw, instead of the {} of the catch block
FetchIndustryClassificationsResult_Partial(cache, st) ==
    IF cache.loaded
    THEN [cache |-> cache, ret |-> cache.map, requested |-> FALSE, ok |-> TRUE]
    ELSE LET r == StatResponse(st)
         IN IF ~r.ok
            THEN [cache |-> cache, ret |-> EmptyMap, requested |-> TRUE, ok |-> FALSE]
            ELSE LET m == BuildMap(ItemsBeforeThrow(r.data))
                 IN [cache |-> [loaded |-> TRUE, map |-> m], ret |-> m,
                     requested |-> TRUE, ok |-> TRUE]

\* fetchIndustryClassifications: given the cache and the service's scenario,
\* the new cache, the value returned and whether a request was sent
FetchIndustryClassificationsResult(cache, st) ==
    IF cache.loaded
    THEN [cache |-> cache, ret |-> cache.map, requested |-> FALSE, ok |-> TRUE]
    ELSE LET r == StatResponse(st)
         IN IF ~r.ok
            THEN [cache |-> cache, ret |-> EmptyMap, requested |-> TRUE, ok |-> FALSE]
            ELSE LET done == ItemsBeforeThrow(r.data)
                     m == BuildMap(done)
                     threw == Len(done) < Len(r.data)
                 IN [cache |-> [loaded |-> TRUE, map |-> m],
                     ret |-> IF threw THEN EmptyMap ELSE m,
                     requested |-> TRUE, ok |-> TRUE]

(***************************************************************************)
(* Translation.  The label strings of the model are opaque, so what the    *)
(* two regular expressions of translateToEnglish say of each is tabulated. *)
(***************************************************************************)
\* /[äöåÄÖÅ]/.test(text)
HasFinnishChars(text) ==
    text \in {"Sähköasennus", "Päivittäistavarakauppa", "Tukku- ja vähittäiskauppa",
              "Muuraustyöt"}

\* /^[a-zA-Z\s,.-]+$/.test(text)
IsPlainAscii(text) ==
    text \in {"Teollisuus", "Ohjelmistojen suunnittelu ja valmistus",
              "Computer programming activities", "Heading without code",
              "Rakentaminen", "Kuljetus ja varastointi", "Manufacturing"}

\* translateFinnishToEnglishBasic: translations[text] || text
translateFinnishToEnglishBasic(finnishText) ==
    CASE finnishText = "Teollisuus" -> "Manufacturing"
      [] finnishText = "Sähköasennus" -> "Electrical installation"
      [] finnishText = "Rakentaminen" -> "Construction"
      [] finnishText = "Tukku- ja vähittäiskauppa" -> "Wholesale and retail trade"
      [] finnishText = "Kuljetus ja varastointi" -> "Transportation and storage"
      [] finnishText = "Muuraustyöt" -> "Masonry work"
      [] OTHER -> finnishText

\* what the provider answers for a text when it answers
DeepL(text) ==
    CASE text = "Sähköasennus" -> "Electrical installation work"
      [] text = "Päivittäistavarakauppa" -> "Grocery retail"
      [] OTHER -> text

\* translateToEnglish without the already-English check
NeedsRequest_NoHeuristic(text) == Truthy(text)

\* translateToEnglish sends a request for this text
NeedsRequest(text) ==
    /\ Truthy(text)
    /\ ~(~HasFinnishChars(text) /\ IsPlainAscii(text))

\* how the provider deals with a request: it answers with the translation; the
\* request is rejected (network error, timeout, 429, 500); it answers without
\* a translations array, so that translations[0] throws; or it answers with a
\* first translation that has no text
Rejections == {"network", "timeout", "429", "500"}

AnswerKinds == {"translated", "noTranslations", "noText"} \cup Rejections

\* translateToEnglish(text) when the request, if one is sent, ends as answer says
translateToEnglishWith(text, answer) ==
    IF ~NeedsRequest(text) THEN text
    ELSE CASE answer = "translated" -> Or2(DeepL(text), text)
           [] answer = "noText" -> text
           [] OTHER -> translateFinnishToEnglishBasic(text)

\* translateToEnglish(text) when the request, if one is sent, is answered (served)
\* or fails
translateToEnglish(text, served) ==
    translateToEnglishWith(text, IF served THEN "translated" ELSE "429")

\* no call of translateToEnglish on its own
NoCall == [text |-> NULL, answer |-> "", state |-> "none", result |-> NULL]

(***************************************************************************)
(* The processing loop of fetchCompaniesFromAPI over the kept records.     *)
(***************************************************************************)
HasEntry(cls, code) == Truthy(code) /\ code \in DOMAIN cls

\* the label the loop hands to translateToEnglish for this record, NULL if none
LabelToTranslate(cls, company) ==
    LET code == IndustryCodeOf(company)
    IN IF HasEntry(cls, code) /\ Truthy(cls[code].name) /\ cls[code].isFinnish
       THEN cls[code].name ELSE NULL

\* categoryName without the translation of Finnish labels
CategoryNameOf_Verbatim(cls, company, served) ==
    LET code == IndustryCodeOf(company)
    IN IF HasEntry(cls, code) THEN cls[code].name
       ELSE IF Truthy(code) THEN "Industry Code: " \o code
       ELSE ""

\* categoryName of a record
CategoryNameOf(cls, company, served) ==
    LET code == IndustryCodeOf(company)
    IN IF HasEntry(cls, code)
       THEN (IF Truthy(cls[code].name) /\ cls[code].isFinnish
             THEN translateToEnglish(cls[code].name, served)
             ELSE cls[code].name)
       ELSE IF Truthy(code) THEN "Industry Code: " \o code
       ELSE ""

\* processedCompanies.push({...}) for one record
ProcessCompany(cls, company, served) ==
    LET companyName == CompanyNameOf(company)
    IN [name |-> companyName,
        businessId |-> BusinessIdOf(company),
        industryCode |-> Or2(IndustryCodeOf(company), ""),
        details |-> [name |-> companyName,
                     description |-> DescriptionOf(company),
                     address |-> AddressOf(company),
                     registrationDate |-> RegistrationDateOf(company),
                     categoryName |-> CategoryNameOf(cls, company, served)]]

\* indices (in order) of the kept records whose label goes to the provider
RequestIndices(w, cls, refs) ==
    SelectSeq([i \in 1..Len(refs) |-> i],
              LAMBDA i : LET l == LabelToTranslate(cls, RecordAt(w, refs[i]))
                         IN l # NULL /\ NeedsRequest(l))

\* the provider answers a request that carries an auth_key while it has quota
\* left
ServedIndices(w, cls, refs, calls) ==
    LET req == RequestIndices(w, cls, refs)
        left == IF Truthy(env.DEEPL_API_KEY) /\ w.deeplQuota > calls
                THEN w.deeplQuota - calls ELSE 0
    IN Range(SubSeq(req, 1, Min(left, Len(req))))

ProcessAll(w, cls, refs, calls) ==
    LET served == ServedIndices(w, cls, refs, calls)
    IN [i \in 1..Len(refs) |-> ProcessCompany(cls, RecordAt(w, refs[i]), i \in served)]

TranslationRequests(w, cls, refs, calls, r) ==
    LET req == RequestIndices(w, cls, refs)
        served == ServedIndices(w, cls, refs, calls)
    IN [j \in 1..Len(req) |->
          [svc |-> "deepl", arg |-> LabelToTranslate(cls, RecordAt(w, refs[req[j]])),
           ok |-> req[j] \in served,
           err |-> IF req[j] \in served THEN ""
                   ELSE IF Truthy(env.DEEPL_API_KEY) THEN "429" ELSE "403",
           n |-> req[j], res |-> 0, run |-> r]]

(***************************************************************************)
(* Text normaliser: the fields of the sentence, in the order of the string *)
(***************************************************************************)
createCompanyText(company) ==
    << "Company", Or2(company.details.name, company.name),
       "Business ID", company.businessId,
       "Industry", company.details.categoryName,
       "Description", company.details.description,
       "Address", company.details.address,
       "Registration Date", Or2(Or2(company.details.registrationDate, ""), "N/A") >>

(***************************************************************************)
(* The history of external requests and timer waits.                       *)
(***************************************************************************)
\* one entry: the service, what was asked (arg), the error it ended with ("" for
\* none), a number describing the program state when it was issued (n), the
\* number of items the answer carried (res), and the run that issued it
Entry(svc, arg, err, n, res) ==
    [svc |-> svc, arg |-> arg, ok |-> err = "", err |-> err, n |-> n, res |-> res,
     run |-> run]

\* the entries of a service, in order
LogOf(svc) == SelectSeq(reqLog, LAMBDA e : e.svc = svc)

(***************************************************************************)
(* fetchCompaniesFromAPI                                                   *)
(***************************************************************************)
\* response.data as the code reads it: an array, or an object holding the
\* array under results or companies; anything else reads as []
Unwrap(envelope, items) ==
    IF envelope \in {"array", "results", "companies"} THEN items ELSE <<>>

\* the shape of the body the listing service answers page p with: the shape
\* of the world, except on the page answered with a document that is not a
\* listing (an error document, a text that is not JSON)
EnvelopeOf(w, p) == IF p = w.badPage THEN "other" ELSE w.envelope

LoopGuard_Inclusive(all, max) == Len(all) <= max

\* while (allFetchedCompanies.length < maxResults)
LoopGuard(all, max) == Len(all) < max

\* if (allFetchedCompanies.length >= maxResults) break
ReachedTarget(all, max) == Len(all) >= max

\* if (pageData.length < resultsPerPage) break
IsLastPage(pageData) == Len(pageData) < resultsPerPage

OverPageLimit_OffByOne(p) == p > PageLimit + 1

\* if (page > 50) break, after page++
OverPageLimit(p) == p > PageLimit

\* the delay placed before the check of the page limit
ReachesDelay_BeforeLimit(stop, p) == ~stop

\* the iteration that requested page p reaches the delay at the end of the
\* loop body: none of the four breaks was taken
ReachesDelay(stop, p) == ~(stop \/ OverPageLimit(p + 1))

\* pageData.filter(...)
ValidCompanies(w, pageData) ==
    SelectSeq(pageData, LAMBDA ref : IsValidCompany(RecordAt(w, ref)))

\* allFetchedCompanies.slice(0, maxResults)
TakeNeeded_All(all, max) == all

TakeNeeded(all, max) == Slice(all, 0, max)

FetchUnchanged == UNCHANGED <<kind, env, world, run, maxResults, texts, allVectors,
                              vi, vectors, idMap, embeddingData, si, db, nextId,
                              exitCode, call>>

\* const classifications = await fetchIndustryClassifications(), the locals of
\* the loop, and the first evaluation of the loop condition
FetchClassifications ==
    /\ pc = "fetch_cls"
    /\ LET r == FetchIndustryClassificationsResult(industryClassifications, world.stat)
       IN /\ industryClassifications' = r.cache
          /\ classifications' = r.ret
          /\ reqLog' = IF r.requested
                       THEN Append(reqLog, Entry("stat", "", IF r.ok THEN "" ELSE "network", 0,
                                                Len(StatResponse(world.stat).data)))
                       ELSE reqLog
    /\ allFetchedCompanies' = <<>>
    /\ page' = 1
    /\ pc' = IF LoopGuard(<<>>, maxResults) THEN "fetch_loop" ELSE "fetch_post"
    /\ UNCHANGED <<companies, deeplCalls>>
    /\ FetchUnchanged

\* one iteration of the pagination loop whose listing request is answered
FetchPage ==
    /\ pc = "fetch_loop"
    /\ LoopGuard(allFetchedCompanies, maxResults)
    /\ LET pageData == Unwrap(EnvelopeOf(world, page), PageData(world, page))
           all == allFetchedCompanies \o ValidCompanies(world, pageData)
           request == Entry("listing", page, "", Len(allFetchedCompanies), Len(pageData))
           stop == \/ Len(pageData) = 0
                   \/ ReachedTarget(all, maxResults)
                   \/ IsLastPage(pageData)
       IN /\ allFetchedCompanies' = IF Len(pageData) = 0 THEN allFetchedCompanies ELSE all
          /\ page' = IF stop THEN page ELSE page + 1
          /\ pc' = IF stop \/ OverPageLimit(page + 1) THEN "fetch_post" ELSE "fetch_loop"
          /\ reqLog' = IF ReachesDelay(stop, page)
                       THEN reqLog \o <<request, Entry("sleep", PageDelayMs, "", page, 0)>>
                       ELSE Append(reqLog, request)
    /\ UNCHANGED <<industryClassifications, classifications, companies, deeplCalls>>
    /\ FetchUnchanged

\* the listing request fails (network error, non-2xx, or a body that is not an
\* object): the catch block logs and rethrows
FetchPageError ==
    /\ pc = "fetch_loop"
    /\ LoopGuard(allFetchedCompanies, maxResults)
    /\ reqLog' = Append(reqLog, Entry("listing", page, "network", Len(allFetchedCompanies), 0))
    /\ pc' = "fetch_err"
    /\ UNCHANGED <<industryClassifications, classifications, allFetchedCompanies, page,
                   companies, deeplCalls>>
    /\ FetchUnchanged

\* after the loop: return [] when nothing was kept, else slice, process every
\* kept record (translating its label where needed) and return the entities
FetchProcess ==
    /\ pc = "fetch_post"
    /\ LET kept == TakeNeeded(allFetchedCompanies, maxResults)
       IN IF Len(allFetchedCompanies) = 0
          THEN /\ companies' = <<>>
               /\ UNCHANGED <<deeplCalls, reqLog>>
          ELSE /\ companies' = ProcessAll(world, classifications, kept, deeplCalls)
               /\ reqLog' = reqLog \o
                              TranslationRequests(world, classifications, kept, deeplCalls, run)
               /\ deeplCalls' = deeplCalls + Len(reqLog') - Len(reqLog)
    /\ pc' = "fetch_ret"
    /\ UNCHANGED <<industryClassifications, classifications, allFetchedCompanies, page>>
    /\ FetchUnchanged

(***************************************************************************)
(* Initial states.                                                         *)
(***************************************************************************)
\* how many full pages the listing holds, in the worlds explored
FullCounts == {0, 1, 2, PageLimit - 1, PageLimit, MaxFullPages}

ListingWorlds ==
    [full : FullCounts, kindOdd : FullKinds, kindEven : FullKinds, tail : TailKinds]

\* the other services: the shape of the listing body, the classification
\* scenario, the number of translation requests the provider answers, and the
\* roster document investors.json
ServiceWorlds ==
    { [envelope |-> "companies", stat |-> "ok", deeplQuota |-> MaxQuota, roster |-> "two"],
      [envelope |-> "array", stat |-> "fail", deeplQuota |-> 0, roster |-> "missing"],
      [envelope |-> "results", stat |-> "bad", deeplQuota |-> 1, roster |-> "invalid"],
      [envelope |-> "companies", stat |-> "single", deeplQuota |-> 0, roster |-> "three"],
      [envelope |-> "other", stat |-> "empty", deeplQuota |-> 0, roster |-> "empty"] }

World(l, s) ==
    [full |-> l.full, kindOdd |-> l.kindOdd, kindEven |-> l.kindEven, tail |-> l.tail,
     envelope |-> s.envelope, stat |-> s.stat, deeplQuota |-> s.deeplQuota,
     roster |-> s.roster, badPage |-> 0]

\* the world w with page p of the listing answered by a document that is not
\* a listing
WithBadPage(w, p) == [w EXCEPT !.badPage = p]

FullEnv == [SUPABASE_URL |-> "url", SUPABASE_ANON_KEY |-> "anon",
            VOYAGE_API_KEY |-> "voyage", DEEPL_API_KEY |-> "deepl",
            BATCH_SIZE |-> NULL]

EmptyDb == [company |-> <<>>, company_embeddings |-> <<>>,
            investor |-> <<>>, investor_embeddings |-> <<>>]

\* a fresh process at position p with every local empty
FreshCall(k, e, w, p, m, t, c) ==
    /\ kind = k
    /\ env = e
    /\ world = w
    /\ pc = p
    /\ run = 1
    /\ industryClassifications = NotLoaded
    /\ classifications = EmptyMap
    /\ maxResults = m
    /\ allFetchedCompanies = <<>>
    /\ page = 1
    /\ companies = <<>>
    /\ texts = t
    /\ allVectors = <<>>
    /\ vi = 0
    /\ vectors = <<>>
    /\ idMap = {}
    /\ embeddingData = <<>>
    /\ si = 0
    /\ db = EmptyDb
    /\ nextId = 1
    /\ deeplCalls = 0
    /\ reqLog = <<>>
    /\ exitCode = "running"
    /\ call = c

FreshWith(k, e, w, p, m, t) == FreshCall(k, e, w, p, m, t, NoCall)

Fresh(k, e, w, p, m) == FreshWith(k, e, w, p, m, <<>>)

(***************************************************************************)
(* SpecFetch: fetchCompaniesFromAPI(target) alone, for every target and    *)
(* world of the bounded sets.                                              *)
(***************************************************************************)
FetchTargets == {0, 1, 2, resultsPerPage + batchSize \div 2}

\* every listing world with the first service world, and every service world
\* with the listings of at most one full page
FetchWorlds ==
    {World(l, CHOOSE s \in ServiceWorlds : s.stat = "ok") : l \in ListingWorlds}
    \cup {World(l, s) : l \in {x \in ListingWorlds : x.full <= 1 /\ x.kindOdd = x.kindEven},
                        s \in ServiceWorlds}
    \cup {WithBadPage(World(l, CHOOSE s \in ServiceWorlds : s.stat = "ok"), p) :
             l \in {x \in ListingWorlds : x.full \in {1, 2}}, p \in {1, 2, 3}}

InitFetch ==
    \E w \in FetchWorlds, m \in FetchTargets :
        Fresh("company", FullEnv, w, "fetch_cls", m)

NextFetch ==
    \/ FetchClassifications
    \/ FetchPage
    \/ FetchPageError
    \/ FetchProcess

SpecFetch == InitFetch /\ [][NextFetch]_vars

FetchReturned == pc = "fetch_ret"

FetchEnded == pc \in {"fetch_ret", "fetch_err"}

\* the body of page p as the code reads it
ReadPage(p) == Unwrap(EnvelopeOf(world, p), PageData(world, p))

(***************************************************************************)
(* C4: during fetch(target_count) no listing request is issued once the    *)
(* number of accumulated filter-passing records is >= target_count, even   *)
(* if the listing holds more pages; fetch(0) issues no listing request.    *)
(***************************************************************************)
C4_NoRequestOnceEnough ==
    /\ \A i \in 1..Len(reqLog) :
          reqLog[i].svc = "listing" => reqLog[i].n < maxResults
    /\ (maxResults = 0 => LogOf("listing") = <<>>)
    /\ (Len(allFetchedCompanies) >= maxResults /\ pc # "fetch_cls"
           => ~ENABLED FetchPage /\ ~ENABLED FetchPageError)

\* the target was reached while the listing still holds a full page
C4_Witness ==
    /\ FetchReturned
    /\ maxResults > 0
    /\ Len(allFetchedCompanies) >= maxResults
    /\ Len(ReadPage(page + 1)) = resultsPerPage
    /\ Len(LogOf("listing")) = page

(***************************************************************************)
(* C5: whatever the listing service answers, fetch ends after at most 50   *)
(* listing requests; the pages requested are 1, 2, ..., k in this order,   *)
(* each once; no page is requested after one that returned fewer than 100  *)
(* records.                                                                *)
(***************************************************************************)
C5_BoundedPagination ==
    LET L == LogOf("listing")
    IN /\ Len(L) <= PageLimit
       /\ \A k \in 1..Len(L) :
             /\ L[k].arg = k
             /\ (k < Len(L) => L[k].ok /\ L[k].res >= resultsPerPage)
       \* every step of the loop issues a listing request, so at most PageLimit
       \* steps are taken; inside the loop the next request can always be
       \* issued (the guard of the step holds), so the pagination is never stuck
       /\ (pc = "fetch_loop" =>
              /\ Len(L) = page - 1
              /\ page <= PageLimit
              /\ LoopGuard(allFetchedCompanies, maxResults))

\* the page ceiling ended the pagination
C5_Witness ==
    /\ FetchReturned
    /\ Len(LogOf("listing")) = PageLimit
    /\ Len(ReadPage(PageLimit)) = resultsPerPage
    /\ Len(allFetchedCompanies) < maxResults

(***************************************************************************)
(* C6: fetch(target_count) returns one entity per kept record; the kept    *)
(* records are the first min(target_count, N) records, in listing order,   *)
(* of the N records of the requested pages that are registered in 2020 or  *)
(* later and carry an industry code.                                       *)
(***************************************************************************)
\* the classes of the listing's records that pass both conditions
PassingClasses == {"ok", "flat", "unk", "noid", "novalue", "enblank"}

RECURSIVE PassingUpTo(_)
PassingUpTo(k) ==
    IF k = 0 THEN <<>>
    ELSE PassingUpTo(k - 1) \o
         SelectSeq(ReadPage(k), LAMBDA ref : ClassOf(world, ref) \in PassingClasses)

Embedding(text, req) == [of |-> text, by |-> req]

\* what an index beyond the end of the vectors reads: undefined
UndefinedVector == [of |-> <<>>, by |-> 0]

Batch_OffByOne(ts, i) == Slice(ts, i, i + batchSize - 1)

\* texts.slice(i, i + batchSize)
Batch(ts, i) == Slice(ts, i, i + batchSize)

MoreChunks_Inclusive(ts, i) == i + batchSize <= Len(ts)

\* if (i + batchSize < texts.length): a wait follows the chunk
MoreChunks(ts, i) == i + batchSize < Len(ts)

VoyageRequests == Len(LogOf("voyage"))

AfterVoyageError_Retry == "vec_loop"
AfterVoyageError_Swallow == "vec_ret"

\* catch (error) { ...; throw error }
AfterVoyageError == "vec_err"

VecUnchanged == UNCHANGED <<kind, env, world, run, industryClassifications,
                            classifications, maxResults, allFetchedCompanies, page,
                            companies, texts, idMap, embeddingData, si, db, nextId,
                            deeplCalls, exitCode, call>>

\* one iteration of the chunk loop whose request is answered; the provider
\* returns one vector per text in order, or (misbehaving) drops the last one
VectorizeBatch ==
    /\ pc = "vec_loop"
    /\ vi < Len(texts)
    /\ \E dropped \in {0, 1} :
          LET batch == Batch(texts, vi)
              req == VoyageRequests + 1
              returned == [j \in 1..(Len(batch) - dropped) |-> Embedding(batch[j], req)]
              request == Entry("voyage", batch, "", vi, Len(returned))
          IN /\ allVectors' = allVectors \o returned
             /\ reqLog' = IF MoreChunks(texts, vi)
                          THEN reqLog \o <<request, Entry("sleep", VoyageDelayMs, "", vi, 0)>>
                          ELSE Append(reqLog, request)
    /\ vi' = vi + batchSize
    /\ pc' = "vec_loop"
    /\ UNCHANGED vectors
    /\ VecUnchanged

\* the request of the chunk fails: the error is logged and thrown again
VectorizeBatchError ==
    /\ pc = "vec_loop"
    /\ vi < Len(texts)
    /\ reqLog' = Append(reqLog, Entry("voyage", Batch(texts, vi), "network", vi, 0))
    /\ pc' = AfterVoyageError
    /\ UNCHANGED <<allVectors, vi, vectors>>
    /\ VecUnchanged

\* the loop is over: return allVectors
VectorizeReturn ==
    /\ pc = "vec_loop"
    /\ ~(vi < Len(texts))
    /\ vectors' = allVectors
    /\ pc' = "vec_ret"
    /\ UNCHANGED <<allVectors, vi, reqLog>>
    /\ VecUnchanged

(***************************************************************************)
(* SpecVec: vectorizeWithVoyage(texts) alone, for every number of texts up *)
(* to MaxTexts.                                                            *)
(***************************************************************************)
NoWorld == World([full |-> 0, kindOdd |-> "fullAll", kindEven |-> "fullAll",
                  tail |-> "empty"],
                 [envelope |-> "companies", stat |-> "ok", deeplQuota |-> 0,
                  roster |-> "empty"])

InitVec ==
    \E k \in {"company", "investor"}, n \in 0..MaxTexts :
        FreshWith(k, FullEnv, NoWorld, "vec_loop", 0, [i \in 1..n |-> <<"text", i>>])

NextVec ==
    \/ VectorizeBatch
    \/ VectorizeBatchError
    \/ VectorizeReturn

SpecVec == InitVec /\ [][NextVec]_vars

\* ceil(n / batchSize)
Chunks(n) == (n + batchSize - 1) \div batchSize

\* every embedding request so far was answered with one vector per text
ProviderWellBehaved ==
    \A i \in 1..Len(reqLog) :
        reqLog[i].svc = "voyage" => reqLog[i].ok /\ reqLog[i].res = Len(reqLog[i].arg)

(***************************************************************************)
(* C2: for n texts and a provider that answers each request with one       *)
(* vector per text in order, vectorize issues exactly ceil(n/100)          *)
(* requests, the k-th carrying texts 100(k-1) .. min(100k, n)-1 in order,  *)
(* and returns n vectors, output[i] being the vector returned for texts[i]. *)
(***************************************************************************)
C2_ChunkedInOrder ==
    (pc = "vec_ret" /\ ProviderWellBehaved) =>
        LET V == LogOf("voyage")
            n == Len(texts)
        IN /\ Len(V) = Chunks(n)
           /\ \A k \in 1..Len(V) :
                 V[k].arg = SubSeq(texts, batchSize * (k - 1) + 1, Min(batchSize * k, n))
           /\ Len(vectors) = n
           /\ \A i \in 1..Len(vectors) :
                 vectors[i] = Embedding(texts[i], ((i - 1) \div batchSize) + 1)

\* three chunks, the last one partial, all answered in full
C2_Witness ==
    /\ pc = "vec_ret"
    /\ ProviderWellBehaved
    /\ Len(texts) > 2 * batchSize
    /\ Len(vectors) = Len(texts)

(***************************************************************************)
(* C3: vectorize is all-or-nothing: when the request of a chunk fails the  *)
(* error is raised, the caller receives no vectors (those of earlier       *)
(* chunks are discarded), the chunk is not retried and no request is       *)
(* issued for a later chunk.                                               *)
(***************************************************************************)
C3_AllOrNothing ==
    LET V == LogOf("voyage")
    IN /\ \A k \in 1..Len(V) : ~V[k].ok => k = Len(V)
       /\ \A j, k \in 1..Len(V) : j < k => V[j].n < V[k].n
       /\ ((\E k \in 1..Len(V) : ~V[k].ok) =>
              /\ pc = "vec_err"
              /\ vectors = <<>>
              /\ ~ENABLED NextVec)

\* the second chunk failed after the first succeeded, with a third to come
C3_Witness ==
    /\ pc = "vec_err"
    /\ Len(allVectors) > 0
    /\ MoreChunks(texts, vi)

(***************************************************************************)
(* The store (Supabase / PostgreSQL).  A table is a sequence of rows        *)
(* [id, key, cols]: id is the surrogate key, key the column the code names *)
(* in onConflict (business_id, investor_id, or the foreign key company_id / *)
(* investor_id of an embeddings table), cols the remaining columns written. *)
(***************************************************************************)
EntityTable(k) == IF k = "company" THEN "company" ELSE "investor"

EmbeddingTable(k) == IF k = "company" THEN "company_embeddings" ELSE "investor_embeddings"

\* the column a row's key field stands for, per table
KeyColumn == [company |-> "business_id", company_embeddings |-> "company_id",
              investor |-> "investor_id", investor_embeddings |-> "investor_id"]

\* the columns that carry a PRIMARY KEY or UNIQUE constraint in the schema
UniqueColumns == [company |-> {"id", "business_id"},
                  company_embeddings |-> {"id"},
                  investor |-> {"id", "investor_id"},
                  investor_embeddings |-> {"id", "investor_id"}]

EntityConflictKey_Id(k) == "id"

\* onConflict of the entity upsert
EntityConflictKey(k) == IF k = "company" THEN "business_id" ELSE "investor_id"

\* onConflict of the embedding upsert
EmbeddingConflictKey(k) == IF k = "company" THEN "company_id" ELSE "investor_id"

IgnoreDuplicates_True == TRUE

\* ignoreDuplicates: false
IgnoreDuplicates == FALSE

KeysOf(rows) == {rows[i].key : i \in 1..Len(rows)}

HasDuplicateKeys(rows) == \E i, j \in 1..Len(rows) : i < j /\ rows[i].key = rows[j].key

\* the rows of a request without those whose key an earlier row carries
FirstOccurrences(rows) ==
    LET idx == SelectSeq([i \in 1..Len(rows) |-> i],
                         LAMBDA i : \A j \in 1..(i - 1) : rows[j].key # rows[i].key)
    IN [n \in 1..Len(idx) |-> rows[idx[n]]]

\* the rows of a request numbered from next as the table's sequence does
Inserted(rows, next) ==
    [i \in 1..Len(rows) |-> [id |-> next + i - 1, key |-> rows[i].key, cols |-> rows[i].cols]]

\* the columns the request carries for a key
ColsFor(rows, key) == rows[CHOOSE j \in 1..Len(rows) : rows[j].key = key].cols

(***************************************************************************)
(* INSERT ... ON CONFLICT (onConflict) DO UPDATE / DO NOTHING on table tbl  *)
(* with contents rowsIn, as PostgreSQL executes it: the statement is        *)
(* rejected (42P10) when no unique constraint matches the conflict target   *)
(* and (21000) when two rows of the statement hit the same conflict key; a  *)
(* row that violates a unique constraint other than the conflict target     *)
(* fails the statement (23505).  A rejected statement changes nothing.      *)
(***************************************************************************)
Upsert(tbl, table, rows, onConflict, next) ==
    LET existing == KeysOf(table)
        fresh == SelectSeq(rows, LAMBDA r : r.key \notin existing)
        keyIsUnique == KeyColumn[tbl] \in UniqueColumns[tbl]
    IN IF Len(rows) = 0
       THEN [err |-> "", table |-> table, next |-> next]
       ELSE IF onConflict \notin UniqueColumns[tbl]
       THEN [err |-> "42P10", table |-> table, next |-> next]
       ELSE IF onConflict = KeyColumn[tbl]
       THEN IF HasDuplicateKeys(rows) /\ ~IgnoreDuplicates
            THEN [err |-> "21000", table |-> table, next |-> next]
            ELSE [err |-> "",
                  table |-> [i \in 1..Len(table) |->
                               IF table[i].key \in KeysOf(rows) /\ ~IgnoreDuplicates
                               THEN [table[i] EXCEPT !.cols = ColsFor(rows, table[i].key)]
                               ELSE table[i]]
                            \o Inserted(FirstOccurrences(fresh), next),
                  next |-> next + Len(rows)]
       \* the conflict target is the surrogate id, which no row of the request
       \* carries: every row is inserted
       ELSE IF keyIsUnique /\ (Len(fresh) < Len(rows) \/ HasDuplicateKeys(rows))
            THEN [err |-> "23505", table |-> table, next |-> next]
            ELSE [err |-> "", table |-> table \o Inserted(rows, next),
                  next |-> next + Len(rows)]

(***************************************************************************)
(* storeInSupabase (the same function in both scripts, on its own tables). *)
(***************************************************************************)
\* company.businessId / investor.investor_id
NaturalKey(k, e) == IF k = "company" THEN e.businessId ELSE e.investor_id

\* companyData / investorData; details is an object in every entity the
\* pipelines build, so company.details || {} is company.details
EntityRows(k, es) ==
    [i \in 1..Len(es) |->
        IF k = "company"
        THEN [key |-> es[i].businessId,
              cols |-> [name |-> es[i].name, details |-> es[i].details]]
        ELSE [key |-> es[i].investor_id, cols |-> [details |-> es[i].details]]]

\* companies.map(c => c.businessId)
ReadBackKeys(k, es) == [i \in 1..Len(es) |-> NaturalKey(k, es[i])]

\* businessIdToCompanyId[key]: 0 stands for undefined
IdOf(map, key) ==
    IF \E pr \in map : pr[1] = key THEN (CHOOSE pr \in map : pr[1] = key)[2] ELSE 0

\* vectors[index]
VectorAt(vs, i) == IF i <= Len(vs) THEN vs[i] ELSE UndefinedVector

EmbeddingData_FilterFirst(k, es, vs, map) ==
    LET kept == SelectSeq(es, LAMBDA e : IdOf(map, NaturalKey(k, e)) # 0)
    IN [j \in 1..Len(kept) |->
          [key |-> IdOf(map, NaturalKey(k, kept[j])), cols |-> [embeddings |-> VectorAt(vs, j)]]]

EmbeddingData_NoFilter(k, es, vs, map) ==
    [i \in 1..Len(es) |->
        [key |-> IdOf(map, NaturalKey(k, es[i])), cols |-> [embeddings |-> VectorAt(vs, i)]]]

\* companies.map((company, index) => ({company_id: ..., embeddings: vectors[index]}))
\*          .filter(item => item.company_id)
EmbeddingData(k, es, vs, map) ==
    LET mapped == [i \in 1..Len(es) |->
                     [key |-> IdOf(map, NaturalKey(k, es[i])),
                      cols |-> [embeddings |-> VectorAt(vs, i)]]]
    IN SelectSeq(mapped, LAMBDA item : item.key # 0)

\* parseInt(process.env.BATCH_SIZE), for the settings explored
IsNumeric(s) == s \in {"0", "2", "-2"}

ParseInt(s) == IF s = "2" THEN 2 ELSE IF s = "-2" THEN -2 ELSE 0

\* const BATCH_SIZE = parseInt(process.env.BATCH_SIZE) || 50
BATCH_SIZE ==
    IF IsNumeric(env.BATCH_SIZE) /\ ParseInt(env.BATCH_SIZE) # 0
    THEN ParseInt(env.BATCH_SIZE)
    ELSE DefaultBatchSize

EmbBatch_OffByOne(data, i) == Slice(data, i, i + BATCH_SIZE - 1)

\* embeddingData.slice(i, i + BATCH_SIZE)
EmbBatch(data, i) == Slice(data, i, i + BATCH_SIZE)

StoreSvcs == {"upsert", "select", "upsert_emb"}

\* the requests sent to the store by the current run, in order
StoreLog == SelectSeq(reqLog, LAMBDA e : e.svc \in StoreSvcs /\ e.run = run)

\* the read-back may miss rows the upsert wrote (deleted meanwhile, or hidden
\* from the key in use by a row policy): any of the first keys asked for
Omissions(keys) == SUBSET Range(SubSeq(keys, 1, Min(3, Len(keys))))

\* a request either reaches the store or fails on the way
Faults == {"", "network"}

AfterEntityUpsertError_Continue == "store_select"

\* if (companyError) { ...; throw companyError }
AfterEntityUpsertError == "store_err"

AfterEmbeddingError_Continue == "store_emb"

\* if (embeddingError) { ...; throw embeddingError }
AfterEmbeddingError == "store_err"

StoreUnchanged == UNCHANGED <<kind, env, world, run, industryClassifications,
                              classifications, maxResults, allFetchedCompanies, page,
                              companies, texts, allVectors, vi, vectors, deeplCalls,
                              exitCode, call>>

\* Step 1: one upsert of every entity row, on the natural key
StoreUpsertEntities ==
    /\ pc = "store_upsert"
    /\ \E fault \in Faults :
          LET t == EntityTable(kind)
              rows == EntityRows(kind, companies)
              res == Upsert(t, db[t], rows, EntityConflictKey(kind), nextId)
              err == IF fault # "" THEN fault ELSE res.err
          IN /\ reqLog' = Append(reqLog, Entry("upsert", rows, err, 0,
                                               IF err = "" THEN Len(rows) ELSE 0))
             /\ IF err = ""
                THEN /\ db' = [db EXCEPT ![t] = res.table]
                     /\ nextId' = res.next
                     /\ pc' = "store_select"
                ELSE /\ UNCHANGED <<db, nextId>>
                     /\ pc' = AfterEntityUpsertError
    /\ UNCHANGED <<idMap, embeddingData, si>>
    /\ StoreUnchanged

\* Step 2: read the surrogate ids back, build the key -> id map and the
\* embedding rows
StoreReadBack ==
    /\ pc = "store_select"
    /\ LET t == EntityTable(kind)
           keys == ReadBackKeys(kind, companies)
       IN \/ \E omitted \in Omissions(keys) :
                LET found == {<<db[t][i].key, db[t][i].id>> :
                                 i \in {j \in 1..Len(db[t]) :
                                           db[t][j].key \in Range(keys) \ omitted}}
                IN /\ reqLog' = Append(reqLog,
                                       Entry("select", keys, "", 0, Cardinality(found)))
                   /\ idMap' = found
                   /\ embeddingData' = EmbeddingData(kind, companies, vectors, found)
                   /\ si' = 0
                   /\ pc' = "store_emb"
          \/ /\ reqLog' = Append(reqLog, Entry("select", keys, "network", 0, 0))
             /\ pc' = "store_err"
             /\ UNCHANGED <<idMap, embeddingData, si>>
    /\ UNCHANGED <<db, nextId>>
    /\ StoreUnchanged

\* Step 3: one iteration of the batch loop
StoreEmbBatch ==
    /\ pc = "store_emb"
    /\ si < Len(embeddingData)
    /\ si >= -MaxStepsBack
    /\ \E fault \in Faults :
          LET t == EmbeddingTable(kind)
              batch == EmbBatch(embeddingData, si)
              res == Upsert(t, db[t], batch, EmbeddingConflictKey(kind), nextId)
              err == IF fault # "" THEN fault ELSE res.err
          IN /\ reqLog' = Append(reqLog, Entry("upsert_emb", batch, err, si,
                                               IF err = "" THEN Len(batch) ELSE 0))
             /\ IF err = ""
                THEN /\ db' = [db EXCEPT ![t] = res.table]
                     /\ nextId' = res.next
                     /\ si' = si + BATCH_SIZE
                     /\ pc' = "store_emb"
                ELSE /\ UNCHANGED <<db, nextId, si>>
                     /\ pc' = AfterEmbeddingError
    /\ UNCHANGED <<idMap, embeddingData>>
    /\ StoreUnchanged

\* the loop is over: storeInSupabase returns
StoreReturn ==
    /\ pc = "store_emb"
    /\ ~(si < Len(embeddingData))
    /\ pc' = "store_ret"
    /\ UNCHANGED <<idMap, embeddingData, si, db, nextId, reqLog>>
    /\ StoreUnchanged

(***************************************************************************)
(* SpecStore: storeInSupabase(entities, vectors) alone, for both scripts,   *)
(* every sequence of up to MaxEntities entities over three natural keys     *)
(* (repeated keys included), one vector per entity, an empty or a populated *)
(* store, and the batch-size settings.                                      *)
(***************************************************************************)
StoreKeys == {"k1", "k2", "k3"}

StoreDetails(key, tag) ==
    [name |-> tag, description |-> key, address |-> "", registrationDate |-> "",
     categoryName |-> tag]

\* the i-th entity of a call, with natural key key
StoreEntity(k, key, i) ==
    LET tag == "new" \o ToString(i)
    IN IF k = "company"
       THEN [name |-> tag, businessId |-> key, industryCode |-> "",
             details |-> StoreDetails(key, tag)]
       ELSE [investor_id |-> key, name |-> tag, details |-> [id |-> key, name |-> tag]]

\* what an earlier run or another writer left: a row for k1, a row for a key no
\* call supplies, and an embedding of the first
OldEntityCols(k, key) ==
    IF k = "company"
    THEN [name |-> "old", details |-> StoreDetails(key, "old")]
    ELSE [details |-> [id |-> key, name |-> "old"]]

OldVector == Embedding(<<"old", 1>>, 0)

OldDb(k) ==
    [EmptyDb EXCEPT
        ![EntityTable(k)] = <<[id |-> 1, key |-> "k1", cols |-> OldEntityCols(k, "k1")],
                              [id |-> 2, key |-> "z", cols |-> OldEntityCols(k, "z")]>>,
        ![EmbeddingTable(k)] = <<[id |-> 3, key |-> 1, cols |-> [embeddings |-> OldVector]]>>]

BatchSettings == {NULL, "2", "0", "abc"}

\* the settings with a negative number among them
SignedBatchSettings == BatchSettings \cup {"-2"}

\* a call large enough for three batches of the default size
BulkEntities == 2 * DefaultBatchSize + 1

\* the natural keys of the entities of a call: every short sequence over
\* StoreKeys, and one long sequence of distinct keys
StoreCalls ==
    UNION {[1..m -> StoreKeys] : m \in 0..MaxEntities}
    \cup {[i \in 1..BulkEntities |-> "k" \o ToString(i)]}

InitStoreWith(settings) ==
    \E k \in {"company", "investor"}, populated \in BOOLEAN, b \in settings :
        \E keys \in StoreCalls :
            /\ kind = k
            /\ env = [FullEnv EXCEPT !.BATCH_SIZE = b]
            /\ world = NoWorld
            /\ pc = "store_upsert"
            /\ run = 1
            /\ industryClassifications = NotLoaded
            /\ classifications = EmptyMap
            /\ maxResults = 0
            /\ allFetchedCompanies = <<>>
            /\ page = 1
            /\ companies = [i \in 1..Len(keys) |-> StoreEntity(k, keys[i], i)]
            /\ texts = [i \in 1..Len(keys) |-> <<"text", i>>]
            /\ allVectors = <<>>
            /\ vi = 0
            /\ vectors = [i \in 1..Len(keys) |-> Embedding(<<"text", i>>, 1)]
            /\ idMap = {}
            /\ embeddingData = <<>>
            /\ si = 0
            /\ db = IF populated THEN OldDb(k) ELSE EmptyDb
            /\ nextId = IF populated THEN 4 ELSE 1
            /\ deeplCalls = 0
            /\ reqLog = <<>>
            /\ exitCode = "running"
            /\ call = NoCall

InitStore == InitStoreWith(BatchSettings)

NextStore ==
    \/ StoreUpsertEntities
    \/ StoreReadBack
    \/ StoreEmbBatch
    \/ StoreReturn

SpecStore == InitStore /\ [][NextStore]_vars

\* storeInSupabase alone, a negative BATCH_SIZE among the settings
InitBatch == InitStoreWith(SignedBatchSettings)

NextBatch ==
    \/ StoreUpsertEntities
    \/ StoreReadBack
    \/ StoreEmbBatch
    \/ StoreReturn

SpecBatch == InitBatch /\ [][NextBatch]_vars

\* positions of the entities whose natural key the read-back returned
MappedIndices ==
    SelectSeq([i \in 1..Len(companies) |-> i],
              LAMBDA i : \E pr \in idMap : pr[1] = NaturalKey(kind, companies[i]))

\* the embedding upserts sent so far
EmbeddingRequests == LogOf("upsert_emb")

(***************************************************************************)
(* C1: with as many vectors as entities, every embedding row store sends   *)
(* pairs the surrogate id read back for the natural key of entity i with    *)
(* vectors[i] of the same index i, also when entities absent from the       *)
(* read-back were filtered out: the j-th row built belongs to the j-th      *)
(* mapped entity, and every request carries rows built that way.            *)
(***************************************************************************)
C1_AlignedEmbeddings ==
    (Len(companies) = Len(vectors) /\ pc \in {"store_emb", "store_ret", "store_err"}) =>
        LET table == db[EntityTable(kind)]
            mapped == MappedIndices
            E == EmbeddingRequests
        IN /\ \A pr \in idMap :
                 \E i \in 1..Len(table) : table[i].key = pr[1] /\ table[i].id = pr[2]
           /\ Len(E) > 0 =>
                 /\ Len(embeddingData) = Len(mapped)
                 /\ \A j \in 1..Len(embeddingData) :
                       /\ <<NaturalKey(kind, companies[mapped[j]]),
                            embeddingData[j].key>> \in idMap
                       /\ embeddingData[j].cols.embeddings = vectors[mapped[j]]
           /\ \A r \in 1..Len(E) :
                 \A x \in 1..Len(E[r].arg) : E[r].arg[x] = embeddingData[E[r].n + x]

\* an entity missing from the read-back precedes a mapped one, and embedding
\* rows were sent
C1_Witness ==
    /\ Len(EmbeddingRequests) > 0
    /\ \E i, j \in 1..Len(companies) :
          /\ i < j
          /\ IdOf(idMap, NaturalKey(kind, companies[i])) = 0
          /\ IdOf(idMap, NaturalKey(kind, companies[j])) # 0

\* the entity upsert of this step was accepted by the store
EntityUpsertAccepted == pc = "store_upsert" /\ pc' = "store_select"

Investor(i) ==
    [id |-> "inv-" \o ToString(i),
     name |-> "Investor " \o ToString(i),
     role |-> IF i % 2 = 1 THEN "Partner" ELSE "",
     firm |-> IF i % 2 = 1 THEN "Firm" ELSE "",
     location |-> "Turku",
     preferred_industries |-> IF i % 2 = 1 THEN <<"AI", "Health">> ELSE <<>>,
     business_models |-> <<"B2B">>,
     preferred_rounds |-> <<>>,
     geo_focus |-> <<"Nordics">>,
     check_size_range |-> "",
     investment_thesis |-> "thesis",
     avoid_industries |-> <<>>]

\* the number of objects in the document
RosterLen(w) ==
    CASE w.roster = "two" -> 2
      [] w.roster = "three" -> 3
      [] w.roster = "bulk" -> batchSize + 1
      [] w.roster = "repeat" -> 2
      [] OTHER -> 0

\* readFileSync or JSON.parse throws
RosterUnreadable(w) == w.roster \in {"missing", "invalid"}

\* loadInvestorsFromJSON()
\* JSON.parse keeps the array as written: a roster that repeats an id yields
\* two investors with that id
loadInvestorsFromJSON(w) ==
    [i \in 1..RosterLen(w) |->
        IF w.roster = "repeat" THEN [Investor(i) EXCEPT !.id = Investor(1).id]
        ELSE Investor(i)]

processInvestorData_Trimmed(investor) ==
    [investor_id |-> investor.id, name |-> investor.name,
     details |-> [investor EXCEPT !.location = ""]]

processInvestorData_NameAsKey(investor) ==
    [investor_id |-> investor.name, name |-> investor.name, details |-> investor]

processInvestorData(investor) ==
    [investor_id |-> investor.id, name |-> investor.name, details |-> investor]

RECURSIVE Join(_)
\* Array.prototype.join(', ')
Join(list) ==
    IF Len(list) = 0 THEN ""
    ELSE IF Len(list) = 1 THEN list[1]
    ELSE list[1] \o ", " \o Join(Tail(list))

\* the fields of the sentence, in the order of the template string
createInvestorText(investor) ==
    << "Investor", Or2(investor.name, ""),
       "Role", Or2(investor.role, "")
               \o (IF Truthy(investor.firm) THEN " at " \o investor.firm ELSE ""),
       "Location", Or2(investor.location, ""),
       "Investment Thesis", Or2(investor.investment_thesis, ""),
       "Preferred Industries", Join(investor.preferred_industries),
       "Business Models", Join(investor.business_models),
       "Preferred Rounds", Join(investor.preferred_rounds),
       "Geographic Focus", Join(investor.geo_focus),
       "Check Size", Or2(investor.check_size_range, ""),
       "Avoid Industries", Join(investor.avoid_industries) >>

(***************************************************************************)
(* main() of both scripts, and the process around it.  createClient at      *)
(* module level throws when the URL or the key is missing, which ends the   *)
(* process with code 1 before main runs; main's own check does the same     *)
(* for the embedding key.                                                   *)
(***************************************************************************)
\* !SUPABASE_URL || !SUPABASE_ANON_KEY || !VOYAGE_API_KEY
EnvMissing(e) ==
    ~Truthy(e.SUPABASE_URL) \/ ~Truthy(e.SUPABASE_ANON_KEY) \/ ~Truthy(e.VOYAGE_API_KEY)

MainUnchanged == UNCHANGED <<kind, env, world, run, industryClassifications,
                             classifications, allFetchedCompanies, page, allVectors,
                             vi, vectors, idMap, embeddingData, si, db, nextId,
                             deeplCalls, reqLog, call>>

\* the process starts: configuration check, then the first stage
MainStart ==
    /\ pc = "main"
    /\ IF EnvMissing(env)
       THEN /\ exitCode' = "1"
            /\ pc' = "exit"
            /\ UNCHANGED maxResults
       ELSE /\ pc' = IF kind = "company" THEN "fetch_cls" ELSE "load"
            /\ maxResults' = IF kind = "company" THEN MainTarget ELSE maxResults
            /\ UNCHANGED exitCode
    /\ UNCHANGED <<companies, texts>>
    /\ MainUnchanged

EmptySourceExitCode_Failure == "1"

\* if (companies.length === 0) { ...; return }: main ends without an error
EmptySourceExitCode == "0"

\* company main after fetchCompaniesFromAPI returned
MainAfterFetch ==
    /\ pc = "fetch_ret"
    /\ IF Len(companies) = 0
       THEN /\ exitCode' = EmptySourceExitCode
            /\ pc' = "exit"
            /\ UNCHANGED texts
       ELSE /\ texts' = [i \in 1..Len(companies) |-> createCompanyText(companies[i])]
            /\ pc' = "vec_loop"
            /\ UNCHANGED exitCode
    /\ UNCHANGED <<maxResults, companies>>
    /\ MainUnchanged

\* investor main up to the first request of vectorizeWithVoyage
LoadInvestors ==
    /\ pc = "load"
    /\ IF RosterUnreadable(world)
       THEN /\ exitCode' = "1"
            /\ pc' = "exit"
            /\ UNCHANGED <<companies, texts>>
       ELSE LET rawInvestors == loadInvestorsFromJSON(world)
            IN IF Len(rawInvestors) = 0
               THEN /\ exitCode' = EmptySourceExitCode
                    /\ pc' = "exit"
                    /\ UNCHANGED <<companies, texts>>
               ELSE /\ companies' = [i \in 1..Len(rawInvestors) |->
                                        processInvestorData(rawInvestors[i])]
                    /\ texts' = [i \in 1..Len(rawInvestors) |->
                                    createInvestorText(rawInvestors[i])]
                    /\ pc' = "vec_loop"
                    /\ UNCHANGED exitCode
    /\ UNCHANGED maxResults
    /\ MainUnchanged

\* what main does with the vectors: it fetches again, or it stores them
AfterVectorize_Refetch == "fetch_cls"
AfterVectorize == "store_upsert"

\* vectorizeWithVoyage returned: main calls storeInSupabase
MainAfterVectorize ==
    /\ pc = "vec_ret"
    /\ pc' = AfterVectorize
    /\ UNCHANGED <<maxResults, companies, texts, exitCode>>
    /\ MainUnchanged

\* storeInSupabase returned: the summary is printed and the process ends
MainDone ==
    /\ pc = "store_ret"
    /\ exitCode' = "0"
    /\ pc' = "exit"
    /\ UNCHANGED <<maxResults, companies, texts>>
    /\ MainUnchanged

\* the code the catch block of main exits with: process.exit(1), not a return
CatchExitCode_Return == "0"
CatchExitCode == "1"

\* catch (error) { console.error(...); process.exit(1) }
MainCatch ==
    /\ pc \in {"fetch_err", "vec_err", "store_err"}
    /\ exitCode' = CatchExitCode
    /\ pc' = "exit"
    /\ UNCHANGED <<maxResults, companies, texts>>
    /\ MainUnchanged

\* the script is started again: a new process, the same configuration, the
\* same services and the store as the earlier run left it (explored for up to
\* MaxRuns runs of at most MaxEntities entities)
Restart ==
    /\ pc = "exit"
    /\ run < MaxRuns
    /\ Len(companies) <= MaxEntities
    /\ run' = run + 1
    /\ pc' = "main"
    /\ exitCode' = "running"
    /\ industryClassifications' = NotLoaded
    /\ classifications' = EmptyMap
    /\ maxResults' = 0
    /\ allFetchedCompanies' = <<>>
    /\ page' = 1
    /\ companies' = <<>>
    /\ texts' = <<>>
    /\ allVectors' = <<>>
    /\ vi' = 0
    /\ vectors' = <<>>
    /\ idMap' = {}
    /\ embeddingData' = <<>>
    /\ si' = 0
    /\ UNCHANGED <<kind, env, world, db, nextId, deeplCalls, reqLog, call>>

(***************************************************************************)
(* Spec: up to MaxRuns runs of one script against the same services and     *)
(* store, from an empty store.                                              *)
(***************************************************************************)
\* configurations: complete, and with one required setting missing
Envs ==
    { FullEnv,
      [FullEnv EXCEPT !.SUPABASE_URL = NULL],
      [FullEnv EXCEPT !.SUPABASE_ANON_KEY = ""],
      [FullEnv EXCEPT !.VOYAGE_API_KEY = NULL],
      [FullEnv EXCEPT !.DEEPL_API_KEY = NULL],
      [FullEnv EXCEPT !.BATCH_SIZE = "2"] }

\* listings of no, one and two passing records, on one page and on two
PipelineListings ==
    { [full |-> 0, kindOdd |-> "fullAll", kindEven |-> "fullAll", tail |-> "empty"],
      [full |-> 0, kindOdd |-> "fullAll", kindEven |-> "fullAll", tail |-> "one"],
      [full |-> 0, kindOdd |-> "fullAll", kindEven |-> "fullAll", tail |-> "short"],
      [full |-> 1, kindOdd |-> "fullNone", kindEven |-> "fullNone", tail |-> "empty"] }

ShortListing == CHOOSE l \in PipelineListings : l.full = 0 /\ l.tail = "short"

\* the worlds a script is run in: the company script with every listing and
\* with every service world, the investor script with every roster
PipelineWorlds(k) ==
    IF k = "company"
    THEN {World(l, CHOOSE s \in ServiceWorlds : s.stat = "ok") : l \in PipelineListings}
         \cup {World(ShortListing, s) : s \in ServiceWorlds}
         \cup {WithBadPage(World(ShortListing, CHOOSE s \in ServiceWorlds : s.stat = "ok"), 1)}
    ELSE {World(ShortListing, s) : s \in ServiceWorlds}

\* a roster of one investor more than an embedding request holds
BulkWorld == World(ShortListing, [envelope |-> "companies", stat |-> "ok",
                                  deeplQuota |-> 0, roster |-> "bulk"])

\* a roster whose two investors carry the same id
RepeatWorld == [BulkWorld EXCEPT !.roster = "repeat"]

Init ==
    \/ \E k \in {"company", "investor"}, e \in Envs :
          \E w \in PipelineWorlds(k) : Fresh(k, e, w, "main", 0)
    \/ \E w \in {BulkWorld, RepeatWorld} : Fresh("investor", FullEnv, w, "main", 0)

Next ==
    \/ MainStart
    \/ FetchClassifications
    \/ FetchPage
    \/ FetchPageError
    \/ FetchProcess
    \/ MainAfterFetch
    \/ LoadInvestors
    \/ VectorizeBatch
    \/ VectorizeBatchError
    \/ VectorizeReturn
    \/ MainAfterVectorize
    \/ StoreUpsertEntities
    \/ StoreReadBack
    \/ StoreEmbBatch
    \/ StoreReturn
    \/ MainDone
    \/ MainCatch
    \/ Restart

Spec == Init /\ [][Next]_vars

\* the entity upserts of the first run that the store accepted
FirstRunUpserts == SelectSeq(LogOf("upsert"), LAMBDA e : e.run = 1 /\ e.ok)

(***************************************************************************)
(* C7: idempotence.  When the script is run a second time against the same  *)
(* source data, the entity table holds, at every point of the second run,   *)
(* exactly the natural keys the first run wrote, one row per key; the       *)
(* second run's entity upsert adds no row and is never rejected by the      *)
(* store.                                                                   *)
(***************************************************************************)
C7_Idempotent ==
    (run = 2 /\ Len(FirstRunUpserts) > 0) =>
        LET t == db[EntityTable(kind)]
            written == FirstRunUpserts[1].arg
        IN /\ KeysOf(t) = KeysOf(written)
           /\ Len(t) = Len(written)
           /\ ~HasDuplicateKeys(t)
           /\ \A i \in 1..Len(reqLog) :
                 (reqLog[i].svc = "upsert" /\ reqLog[i].run = 2) =>
                    reqLog[i].err \in Faults

\* the second company run had its entity upsert accepted, as the first had
C7_Witness ==
    /\ kind = "company"
    /\ run = 2
    /\ pc = "store_select"
    /\ Len(FirstRunUpserts) > 0
    /\ Len(db.company) >= 2

\* the embedding upserts that reached the store
ReachedEmbeddingRequests == SelectSeq(LogOf("upsert_emb"), LAMBDA e : e.err # "network")

\* rows of the embeddings table of this script that carry foreign key fk
EmbeddingRowsOf(fk) ==
    SelectSeq(db[EmbeddingTable(kind)], LAMBDA r : r.key = fk)

(***************************************************************************)
(* C9: the store holds at most one embedding row per entity surrogate id,   *)
(* and an embedding upsert replaces the vector of that surrogate id: after  *)
(* an embedding upsert reached the store, the table holds exactly one row   *)
(* for each surrogate id of the request, and that row carries the vector of *)
(* the latest request for that id.  Stated for both the company and the     *)
(* investor embeddings table.                                               *)
(***************************************************************************)
C9_OneEmbeddingPerEntity ==
    LET R == ReachedEmbeddingRequests
    IN /\ ~HasDuplicateKeys(db.company_embeddings)
       /\ ~HasDuplicateKeys(db.investor_embeddings)
       /\ \A k \in 1..Len(R) :
             \A x \in 1..Len(R[k].arg) :
                LET row == R[k].arg[x]
                    latest == \A k2 \in (k + 1)..Len(R) :
                                 \A y \in 1..Len(R[k2].arg) : R[k2].arg[y].key # row.key
                IN latest =>
                      /\ Len(EmbeddingRowsOf(row.key)) = 1
                      /\ EmbeddingRowsOf(row.key)[1].cols = row.cols

(***************************************************************************)
(* C11: the embedding rows of the m entities that have a surrogate id are   *)
(* sent in batches of the configured size B (50 by default): the r-th       *)
(* request carries rows B(r-1)+1 .. min(Br, m) of the list, so no request   *)
(* has more than B rows, every row is in exactly one request and the entity *)
(* order is kept; a call that returns has sent ceil(m / B) requests.        *)
(***************************************************************************)
C11_BatchedEmbeddings ==
    LET E == LogOf("upsert_emb")
        m == Len(embeddingData)
        B == BATCH_SIZE
    IN /\ B = (IF env.BATCH_SIZE = "2" THEN 2 ELSE DefaultBatchSize)
       /\ (pc \in {"store_emb", "store_ret"} => m = Len(MappedIndices))
       /\ \A r \in 1..Len(E) :
             /\ Len(E[r].arg) <= B
             /\ E[r].arg = SubSeq(embeddingData, B * (r - 1) + 1, Min(B * r, m))
       /\ (pc = "store_ret" => Len(E) = (m + B - 1) \div B)

\* a call with the default batch size that needed three batches and returned
C11_Witness ==
    /\ pc = "store_ret"
    /\ env.BATCH_SIZE = NULL
    /\ Len(embeddingData) > 2 * DefaultBatchSize
    /\ Len(LogOf("upsert_emb")) = 3

\* the table holds a row with this key and these columns
Holds(table, row) ==
    \E i \in 1..Len(table) : table[i].key = row.key /\ table[i].cols = row.cols

(***************************************************************************)
(* C12: when a store request reports an error, store raises it and sends    *)
(* no further request (the failed request is the last of the call); what    *)
(* the entity upsert and the earlier embedding batches wrote stays in the   *)
(* store, and the rows of the failing batch and of the batches after it are *)
(* not written.                                                             *)
(***************************************************************************)
C12_ErrorAborts ==
    LET S == StoreLog
        failed == {k \in 1..Len(S) : ~S[k].ok}
        entities == db[EntityTable(kind)]
        embeddings == db[EmbeddingTable(kind)]
    IN /\ \A k \in failed : k = Len(S)
       /\ (failed # {} <=> pc = "store_err")
       /\ pc = "store_err" =>
             /\ \A k \in 1..Len(S) :
                   /\ (S[k].svc = "upsert" /\ S[k].ok) =>
                         \A x \in 1..Len(S[k].arg) : Holds(entities, S[k].arg[x])
                   /\ (S[k].svc = "upsert_emb" /\ S[k].ok) =>
                         \A x \in 1..Len(S[k].arg) : Holds(embeddings, S[k].arg[x])
             /\ (S[Len(S)].svc = "upsert_emb") =>
                   \A j \in (S[Len(S)].n + 1)..Len(embeddingData) :
                      ~Holds(embeddings, embeddingData[j])

\* the second embedding batch failed after the first was written
C12_Witness ==
    /\ pc = "store_err"
    /\ Len(StoreLog) = 4
    /\ StoreLog[3].ok
    /\ StoreLog[4].svc = "upsert_emb"
    /\ si < Len(embeddingData)

\* positions of the entities whose natural key the read-back did not return
OmittedIndices ==
    {i \in 1..Len(companies) : IdOf(idMap, NaturalKey(kind, companies[i])) = 0}

\* some row of some embedding request, or of the embeddings table, carries v
VectorSentOrStored(v) ==
    \/ \E r \in 1..Len(EmbeddingRequests) :
          \E x \in 1..Len(EmbeddingRequests[r].arg) :
             EmbeddingRequests[r].arg[x].cols.embeddings = v
    \/ \E i \in 1..Len(db[EmbeddingTable(kind)]) :
          db[EmbeddingTable(kind)][i].cols.embeddings = v

(***************************************************************************)
(* C13: a read-back that omits the natural key of some entities does not    *)
(* make store fail: the call goes on to the embedding batches, no row is    *)
(* sent or written for an omitted entity, and when the call returns the     *)
(* row of every other entity is in the embeddings table.                    *)
(***************************************************************************)
C13_OmittedEntitiesSkipped ==
    LET S == StoreLog
    IN /\ (Len(S) = 2 /\ S[2].ok) => pc \in {"store_emb", "store_ret"}
       /\ pc \in {"store_emb", "store_ret", "store_err"} /\ Len(S) >= 2 /\ S[2].ok =>
             \A i \in OmittedIndices : ~VectorSentOrStored(vectors[i])
       /\ pc = "store_ret" =>
             \A i \in 1..Len(companies) :
                i \notin OmittedIndices =>
                   Holds(db[EmbeddingTable(kind)],
                         [key |-> IdOf(idMap, NaturalKey(kind, companies[i])),
                          cols |-> [embeddings |-> vectors[i]]])

\* C13 as stated: when the read-back omits the natural key of some entities
\* and every request reaches the store, the call completes without error.
C13_CompletesDespiteOmission ==
    LET S == StoreLog
    IN /\ Len(S) >= 2
       /\ S[2].ok
       /\ OmittedIndices # {}
       /\ \A i \in 1..Len(S) : S[i].err # "network"
       => pc # "store_err"

\* the same for the investor script
C13_InvestorCompletesDespiteOmission ==
    kind = "investor" => C13_CompletesDespiteOmission

\* a call returned although the read-back had omitted one entity and returned
\* another
C13_Witness ==
    /\ pc = "store_ret"
    /\ OmittedIndices # {}
    /\ \E i \in 1..Len(companies) : i \notin OmittedIndices
    /\ Len(EmbeddingRequests) > 0

(***************************************************************************)
(* Stages of a run                                                         *)
(***************************************************************************)
\* the stage a request belongs to: 1 fetch (classification, listing pages,
\* page delay, translation), 2 vectorization (embedding batches and their
\* delay), 3 storage
StageOf(e) ==
    IF e.svc \in {"stat", "listing", "deepl"} THEN 1
    ELSE IF e.svc = "sleep" THEN (IF e.arg = PageDelayMs THEN 1 ELSE 2)
    ELSE IF e.svc = "voyage" THEN 2
    ELSE 3

\* the stage the run is executing
StageOfPc ==
    IF pc \in {"fetch_cls", "fetch_loop", "fetch_post", "fetch_ret", "fetch_err"} THEN 1
    ELSE IF pc \in {"vec_loop", "vec_ret", "vec_err"} THEN 2
    ELSE IF pc \in {"store_upsert", "store_select", "store_emb", "store_ret", "store_err"}
         THEN 3
    ELSE 0

\* C14: the stages of a run never overlap: within one run every request of
\* the fetch stage precedes every request of the vectorization stage, which
\* precedes every request of the storage stage; while a stage executes, no
\* request of a later stage has been sent in that run; and the runs follow
\* one another in the log.
C14_StagesInOrder ==
    LET L == reqLog
        S == [i \in 1..Len(L) |-> StageOf(L[i])]
    IN /\ \A i \in 1..Len(L) : \A j \in 1..Len(L) :
             i < j => /\ L[i].run <= L[j].run
                      /\ (L[i].run = L[j].run => S[i] <= S[j])
       /\ \A i \in 1..Len(L) :
             L[i].run = run /\ StageOfPc # 0 => S[i] <= StageOfPc

\* a company run that sent requests in all three stages
C14_Witness ==
    /\ kind = "company"
    /\ \E i \in 1..Len(reqLog) : reqLog[i].run = run /\ reqLog[i].svc = "listing"
    /\ \E i \in 1..Len(reqLog) : reqLog[i].run = run /\ reqLog[i].svc = "voyage"
    /\ \E i \in 1..Len(reqLog) : reqLog[i].run = run /\ reqLog[i].svc \in StoreSvcs
    /\ pc = "exit"

(***************************************************************************)
(* Failure of the vectorization                                            *)
(***************************************************************************)
\* the runs in which an embedding request failed
RunsWithVoyageFailure ==
    {reqLog[i].run : i \in {j \in 1..Len(reqLog) : reqLog[j].svc = "voyage" /\ ~reqLog[j].ok}}

\* C15: a run in which an embedding request failed, on the first chunk or on a
\* later one, sends no request to the store: the store keeps the content it
\* had when the run began, and the process exits with code 1.
C15_VectorizeFailureStoresNothing ==
    LET failedRuns == RunsWithVoyageFailure
    IN /\ \A i \in 1..Len(reqLog) :
             reqLog[i].svc \in StoreSvcs => reqLog[i].run \notin failedRuns
       /\ run \in failedRuns =>
             /\ pc \in {"vec_err", "exit"}
             /\ vectors = <<>>
             /\ (pc = "exit" => exitCode = "1")
             /\ (run = 1 => db = EmptyDb)

\* the second embedding request of a run failed after the first succeeded,
\* and the process has exited
C15_Witness ==
    /\ pc = "exit"
    /\ \E i \in 1..Len(reqLog) :
          /\ reqLog[i].svc = "voyage" /\ reqLog[i].run = run
          /\ ~reqLog[i].ok /\ reqLog[i].n = batchSize
    /\ \E i \in 1..Len(reqLog) :
          reqLog[i].svc = "voyage" /\ reqLog[i].run = run /\ reqLog[i].ok

(***************************************************************************)
(* Failure of a listing request                                            *)
(***************************************************************************)
\* the listing requests of the current run that failed: no answer (network
\* error, timeout, non-2xx status), or an answer that is not a listing
FailedListingRequests ==
    LET L == LogOf("listing")
    IN {k \in 1..Len(L) :
          L[k].run = run /\ (~L[k].ok \/ EnvelopeOf(world, L[k].arg) = "other")}

\* the listing requests of the current run that got no answer
UnansweredListingRequests ==
    LET L == LogOf("listing")
    IN {k \in 1..Len(L) : L[k].run = run /\ ~L[k].ok}

\* C16: when a listing request fails, by the network or by a malformed
\* response, on whichever page, fetch raises the error and returns no
\* entities, no further listing request is issued, and the run sends no
\* embedding request and no store request.
C16_ListingFailureAborts ==
    LET L == LogOf("listing")
        failed == FailedListingRequests
    IN failed # {} =>
          /\ \A k \in failed : k = Len(L)
          /\ pc \in {"fetch_err", "exit"}
          /\ companies = <<>>
          /\ \A i \in 1..Len(reqLog) :
                reqLog[i].run = run => reqLog[i].svc \notin StoreSvcs \cup {"voyage"}

\* the same for the requests that got no answer
C16_UnansweredListingAborts ==
    LET L == LogOf("listing")
        failed == UnansweredListingRequests
    IN failed # {} =>
          /\ \A k \in failed : k = Len(L)
          /\ pc \in {"fetch_err", "exit"}
          /\ companies = <<>>
          /\ \A i \in 1..Len(reqLog) :
                reqLog[i].run = run => reqLog[i].svc \notin StoreSvcs \cup {"voyage"}

\* the second page was answered with a document that is not a listing, and
\* fetch returned the entities of the first page
C16_TruncatedListing ==
    /\ pc = "fetch_ret"
    /\ world.badPage = 2
    /\ Len(LogOf("listing")) = 2
    /\ Len(companies) > 0

(***************************************************************************)
(* SpecRepeat: fetchCompaniesFromAPI called repeatedly within one process, *)
(* so that fetchIndustryClassifications is called more than once with the  *)
(* module-level cache kept.                                                 *)
(***************************************************************************)
\* the caller calls fetchCompaniesFromAPI again in the same process
FetchAgain ==
    /\ pc \in {"fetch_ret", "fetch_err"}
    /\ Len(reqLog) < MaxRequests
    /\ pc' = "fetch_cls"
    /\ UNCHANGED <<industryClassifications, classifications, allFetchedCompanies, page,
                   companies, deeplCalls, reqLog>>
    /\ FetchUnchanged

InitRepeat ==
    \E w \in PipelineWorlds("company"), m \in {0, 1, 2} :
        Fresh("company", FullEnv, w, "fetch_cls", m)

NextRepeat ==
    \/ FetchClassifications
    \/ FetchPage
    \/ FetchPageError
    \/ FetchProcess
    \/ FetchAgain

SpecRepeat == InitRepeat /\ [][NextRepeat]_vars

\* C17: whatever the number of get_classifications calls in one process, at
\* most one request is sent to the classification service: a failed first
\* fetch is remembered as an empty mapping and a first fetch that returned no
\* entry is remembered too, so that no later call sends a request.
C17_AtMostOneClassificationRequest == Len(LogOf("stat")) <= 1

\* the same when a classification request was answered (with entries, with
\* none, or with an item that makes the loop throw): no second request
C17_AnsweredOnce ==
    (\E i \in 1..Len(reqLog) : reqLog[i].svc = "stat" /\ reqLog[i].ok)
        => Len(LogOf("stat")) = 1 /\ industryClassifications.loaded

\* the service answered with no entry and fetch was called a second time
C17_EmptyAnswerKept ==
    /\ world.stat = "empty"
    /\ pc = "fetch_ret"
    /\ Len(LogOf("stat")) = 1
    /\ Len(LogOf("listing")) >= 2

(***************************************************************************)
(* Failure of the classification service                                   *)
(***************************************************************************)
\* the classification request fails, or its answer makes the loop throw
ClassificationFailure == world.stat \in {"fail", "bad"}

\* C18: a failure of the classification service (request error or a response
\* that cannot be processed) is not fatal: get_classifications returns an
\* empty mapping after its one request, fetch goes on to paginate and to
\* normalise (it ends in error only when a listing request fails, and it
\* returns the entities of the kept records), and every entity returned has
\* the label "Industry Code: <code>" of its own code.
C18_ClassificationFailureNotFatal ==
    ClassificationFailure /\ pc # "fetch_cls" =>
        /\ classifications = EmptyMap
        /\ Len(LogOf("stat")) = 1
        /\ LogOf("deepl") = <<>>
        /\ (pc = "fetch_err" => ~LogOf("listing")[Len(LogOf("listing"))].ok)
        /\ (FetchReturned =>
              LET passing == PassingUpTo(Len(LogOf("listing")))
              IN /\ Len(companies) = Min(maxResults, Len(passing))
                 /\ \A i \in 1..Len(companies) :
                       /\ companies[i].industryCode # ""
                       /\ companies[i].details.categoryName
                             = "Industry Code: " \o companies[i].industryCode)

\* fetch returned entities of two pages although the classification service
\* failed
C18_Witness ==
    /\ ClassificationFailure
    /\ FetchReturned
    /\ Len(LogOf("listing")) >= 2
    /\ Len(companies) > resultsPerPage
    /\ \E i \in 1..Len(companies) : companies[i].industryCode = "62010"

(***************************************************************************)
(* SpecTranslate: translateToEnglish called alone, for every text of a     *)
(* bounded set and every way the provider can deal with the request.       *)
(***************************************************************************)
\* no text, the empty text, keys of the dictionary (plain ASCII and with
\* Finnish letters) and texts the dictionary does not hold
TranslateTexts ==
    {NULL, "", "Teollisuus", "Rakentaminen", "Kuljetus ja varastointi",
     "Sähköasennus", "Tukku- ja vähittäiskauppa", "Muuraustyöt",
     "Päivittäistavarakauppa", "Toimiala 62010",
     "Ohjelmistojen suunnittelu ja valmistus", "Computer programming activities",
     "Manufacturing"}

\* the texts of TranslateTexts that are keys of the translations object
DictionaryKeys ==
    {"Teollisuus", "Rakentaminen", "Kuljetus ja varastointi", "Sähköasennus",
     "Tukku- ja vähittäiskauppa", "Muuraustyöt"}

\* await translateToEnglish(text)
Translate ==
    /\ pc = "translate"
    /\ call.state = "called"
    /\ call' = [call EXCEPT !.state = "returned",
                            !.result = translateToEnglishWith(call.text, call.answer)]
    /\ reqLog' = IF NeedsRequest(call.text)
                 THEN Append(reqLog, Entry("deepl", call.text,
                                           IF call.answer \in Rejections
                                           THEN call.answer ELSE "", 0, 0))
                 ELSE reqLog
    /\ pc' = "translate_ret"
    /\ UNCHANGED <<kind, env, world, run, industryClassifications, classifications,
                   maxResults, allFetchedCompanies, page, companies, texts, allVectors,
                   vi, vectors, idMap, embeddingData, si, db, nextId, deeplCalls,
                   exitCode>>

InitTranslate ==
    \E text \in TranslateTexts, answer \in AnswerKinds :
        FreshCall("company", FullEnv, NoWorld, "translate", 0, <<>>,
                  [text |-> text, answer |-> answer, state |-> "called", result |-> NULL])

NextTranslate == Translate

SpecTranslate == InitTranslate /\ [][NextTranslate]_vars

\* C19: whatever the text and however the translation service fails (network
\* error, timeout, rate limit, non-2xx, or a success response without the
\* expected translation field), translate returns the dictionary's value
\* when the text is an exact key of the dictionary and the text itself
\* otherwise.
C19_FallbackOrPassThrough ==
    call.state = "returned" /\ call.answer # "translated" =>
        call.result = (IF call.text \in DictionaryKeys
                       THEN translateFinnishToEnglishBasic(call.text)
                       ELSE call.text)

\* what does hold of a call whose request failed: it returns, with the
\* dictionary's value or the text itself
C19_ReturnsTextOrDictionaryValue ==
    call.state = "returned" /\ call.answer # "translated" =>
        call.result \in {call.text, translateFinnishToEnglishBasic(call.text)}

\* C20: when the translation service rejects the request, translate of an
\* exact key of the dictionary returns the dictionary's value; translate of
\* "Teollisuus" returns "Manufacturing".
C20_DictionaryFallback ==
    call.state = "returned" /\ call.answer \in Rejections /\ call.text \in DictionaryKeys =>
        /\ call.result = translateFinnishToEnglishBasic(call.text)
        /\ (call.text = "Teollisuus" => call.result = "Manufacturing")

\* what does hold: the dictionary's value is returned for the keys that are
\* sent to the service, those with a character outside [a-zA-Z\s,.-]
C20_FallbackForRequestedKeys ==
    /\ call.state = "returned"
    /\ call.answer \in Rejections
    /\ call.text \in DictionaryKeys
    /\ NeedsRequest(call.text)
    => call.result = translateFinnishToEnglishBasic(call.text) /\ call.result # call.text

\* translate("Teollisuus") returned "Teollisuus" without a request
C20_TeollisuusUnchanged ==
    /\ call.state = "returned"
    /\ call.text = "Teollisuus"
    /\ call.result = "Teollisuus"
    /\ reqLog = <<>>

\* C21: translate("") returns "", and translate of a text without ä, ö, å that
\* consists only of ASCII letters, whitespace, commas, periods and hyphens
\* returns the text unchanged; in both cases no request is sent to the
\* translation service, however the service would have answered.
C21_PassThrough ==
    /\ call.state = "returned"
    /\ (call.text = "" \/ (~HasFinnishChars(call.text) /\ IsPlainAscii(call.text)))
    => call.result = call.text /\ reqLog = <<>>

\* translate("Manufacturing") returned while the service rejects every request
C21_Witness ==
    /\ call.state = "returned"
    /\ call.text = "Manufacturing"
    /\ call.answer \in Rejections
    /\ call.result = "Manufacturing"
    /\ reqLog = <<>>

\* translate("") returned ""
C21_EmptyText == call.state = "returned" /\ call.text = "" /\ call.result = ""

(***************************************************************************)
(* Missing configuration                                                   *)
(***************************************************************************)
\* the requests and timer waits of the current run
RunLog == SelectSeq(reqLog, LAMBDA e : e.run = run)

\* a credential the documentation marks as required is missing: the store
\* endpoint, the store credential, the embedding-service credential, or the
\* translation-service credential of the company script
CredentialMissing(e) == EnvMissing(e) \/ (kind = "company" /\ ~Truthy(e.DEEPL_API_KEY))

\* C22: when a required credential is missing (store endpoint, store
\* credential, embedding-service credential or translation-service
\* credential), the run fails at startup: it sends no request to any
\* external service and exits with a nonzero code.
C22_MissingCredentialFailsAtStartup ==
    CredentialMissing(env) =>
        /\ RunLog = <<>>
        /\ pc \in {"main", "exit"}
        /\ (pc = "exit" => exitCode = "1")

\* the same for the three settings main validates
C22_ValidatedSettings ==
    EnvMissing(env) =>
        /\ RunLog = <<>>
        /\ pc \in {"main", "exit"}
        /\ (pc = "exit" => exitCode = "1")

\* a company run without the translation credential wrote to the store and
\* ended with code 0 or 1 after sending requests
C22_RunWithoutTranslationCredential ==
    /\ ~Truthy(env.DEEPL_API_KEY)
    /\ pc = "exit"
    /\ \E i \in 1..Len(reqLog) : reqLog[i].svc = "upsert" /\ reqLog[i].ok

(***************************************************************************)
(* Exit codes                                                              *)
(***************************************************************************)
\* the router: execAsync rejects when the child exits with a nonzero code, and
\* the catch block calls process.exit(1); otherwise main returns
RouterExitCode(childCode) == IF childCode = "0" THEN "0" ELSE "1"

\* an error that was raised in the current run: a missing setting, an
\* unreadable roster, or a listing, embedding or store request that failed
RaisedErrorInRun ==
    \/ EnvMissing(env)
    \/ (kind = "investor" /\ RosterUnreadable(world))
    \/ \E i \in 1..Len(reqLog) :
          /\ reqLog[i].run = run
          /\ reqLog[i].svc \in {"listing", "voyage"} \cup StoreSvcs
          /\ ~reqLog[i].ok

\* a listing request of the current run was answered with a body that is not
\* a listing
MalformedListingInRun ==
    \E i \in 1..Len(reqLog) :
        /\ reqLog[i].run = run
        /\ reqLog[i].svc = "listing"
        /\ reqLog[i].ok
        /\ EnvelopeOf(world, reqLog[i].arg) = "other"

\* the store stage of the current run completed: its entity upsert, its
\* read-back and every embedding batch were accepted
StoreCompleted ==
    /\ Len(StoreLog) >= 2
    /\ \A i \in 1..Len(StoreLog) : StoreLog[i].ok

\* C23: a run exits with code 0 only if no stage failed (and, when there are
\* entities, the store stage completed), and with a nonzero code after any
\* fatal error: missing configuration, fetch error (a listing request that
\* failed or was answered with a malformed response, an unreadable roster),
\* vectorize error or store error; the router exits nonzero whenever the
\* pipeline it launched did.
C23_ExitContract ==
    pc = "exit" =>
        /\ exitCode \in {"0", "1"}
        /\ (exitCode = "0" <=> ~(RaisedErrorInRun \/ MalformedListingInRun))
        /\ (exitCode = "0" /\ companies # <<>> => StoreCompleted)
        /\ (exitCode # "0" => RouterExitCode(exitCode) # "0")

\* the same contract for the errors that are raised
C23_ExitContractOfRaisedErrors ==
    pc = "exit" =>
        /\ exitCode \in {"0", "1"}
        /\ (exitCode = "0" <=> ~RaisedErrorInRun)
        /\ (exitCode = "0" /\ companies # <<>> => StoreCompleted)
        /\ (exitCode # "0" => RouterExitCode(exitCode) # "0")

\* a run whose first listing page was answered with a malformed body ended
\* with code 0
C23_MalformedListingExitsZero ==
    pc = "exit" /\ exitCode = "0" /\ MalformedListingInRun /\ world.badPage = 1

(***************************************************************************)
(* Embeddings mode                                                         *)
(***************************************************************************)
\* C24: the company pipeline runs with embeddings off unless they are turned
\* on explicitly: a run started without the flag (main reads no argument, so
\* every run is one) sends no request to the embedding service and no
\* embedding upsert, and writes only entity rows.
C24_EmbeddingsOffByDefault ==
    kind = "company" =>
        /\ \A i \in 1..Len(reqLog) : reqLog[i].svc \notin {"voyage", "upsert_emb"}
        /\ db.company_embeddings = <<>>

\* a company run sent an embedding request and then an embedding upsert
C24_DefaultRunVectorizes ==
    /\ kind = "company"
    /\ \E i \in 1..Len(reqLog) : reqLog[i].svc = "voyage" /\ reqLog[i].ok
    /\ \E i \in 1..Len(reqLog) : reqLog[i].svc = "upsert_emb"

(***************************************************************************)
(* Natural keys                                                            *)
(***************************************************************************)
\* C25: every entity fetch returns has a non-empty string as its natural key,
\* whatever the shape of the raw record: identifier missing, empty, or a
\* nested object without a value.
C25_NaturalKeyNonEmpty ==
    FetchReturned =>
        \A i \in 1..Len(companies) : companies[i].businessId \notin {"", NULL, OBJECT}

\* the same for the records whose identifier carries a value
C25_IdentifiedRecordsKeepTheirKey ==
    FetchReturned =>
        LET passing == PassingUpTo(Len(LogOf("listing")))
        IN \A i \in 1..Len(companies) :
              ClassOf(world, passing[i]) \notin Unidentified
                 => companies[i].businessId = KeyOf(passing[i])

\* fetch returned an entity with the empty key and one whose key is an object
C25_EmptyAndObjectKeys ==
    /\ FetchReturned
    /\ \E i \in 1..Len(companies) : companies[i].businessId = ""
    /\ \E i \in 1..Len(companies) : companies[i].businessId = OBJECT

(***************************************************************************)
(* Uniqueness of the natural keys of a run (loadInvestorsFromJSON,          *)
(* processInvestorData, storeInSupabase).                                   *)
(***************************************************************************)
\* the ids of the roster, in the order of the file
RosterIds == [i \in 1..RosterLen(world) |-> loadInvestorsFromJSON(world)[i].id]

\* the entity sequence is in the hands of the vectorizer or the store writer
HandedOn == StageOfPc \in {2, 3}

\* C26: natural keys are unique per source within a run: the entity sequence
\* handed to the store writer never contains two entities with the same
\* natural key, also when the roster file repeats an identifier.
C26_NoDuplicateKeys ==
    (kind = "investor" /\ StageOfPc = 3) =>
        ~HasDuplicateKeys(EntityRows(kind, companies))

\* C26 (amended): the entity sequence handed to the store writer contains no
\* two entities with the same natural key when the records of the source
\* carry pairwise distinct, non-empty identifiers (a listing whose pages do
\* not overlap, a roster of distinct ids).
\* The scripts do not deduplicate: the keys of the investor sequence are the
\* ids of the roster, one per roster entry in the order of the file, so a
\* roster that repeats an id hands a repeated key to the store writer, whose
\* entity upsert is never accepted; the run stores nothing and does not
\* complete.
C26_KeysAsDelivered ==
    /\ (kind = "company" /\ HandedOn) => ~HasDuplicateKeys(EntityRows(kind, companies))
    /\ kind = "investor" =>
        /\ HandedOn => ReadBackKeys(kind, companies) = RosterIds
        /\ (world.roster # "repeat" /\ HandedOn) =>
              ~HasDuplicateKeys(EntityRows(kind, companies))
        /\ (HandedOn /\ HasDuplicateKeys(EntityRows(kind, companies))) =>
              /\ \A i \in 1..Len(StoreLog) :
                    /\ StoreLog[i].svc = "upsert"
                    /\ ~StoreLog[i].ok
                    /\ StoreLog[i].err \in {"21000", "network"}
              /\ pc # "store_ret"
              /\ db[EntityTable(kind)] = <<>>

\* the store rejected the entity upsert of a roster that repeats an id
C26_Witness ==
    /\ kind = "investor"
    /\ pc = "store_err"
    /\ HasDuplicateKeys(EntityRows(kind, companies))
    /\ Len(StoreLog) = 1
    /\ StoreLog[1].err = "21000"

(***************************************************************************)
(* The waits of vectorizeWithVoyage (lines 441-445).                        *)
(***************************************************************************)
Waits == LogOf("sleep")

\* C27: a wait of 60 seconds follows every successful chunk request except
\* the last one: every wait lasts the fixed delay and directly follows an
\* answered embedding request, every answered request that leaves texts to
\* embed is directly followed by a wait, so any two consecutive embedding
\* requests are separated by one; no wait follows the final chunk, and a call
\* that returns for n >= 1 texts has made exactly ceil(n/100) - 1 waits, none
\* when n <= 100.
C27_WaitBetweenChunks ==
    LET L == reqLog
        n == Len(texts)
    IN /\ \A k \in 1..Len(L) :
             /\ L[k].svc = "sleep" =>
                   /\ L[k].arg = VoyageDelayMs
                   /\ VoyageDelayMs = 60 * 1000
                   /\ k > 1
                   /\ L[k-1].svc = "voyage"
                   /\ L[k-1].ok
                   /\ L[k-1].n + batchSize < n
             /\ (L[k].svc = "voyage" /\ L[k].ok /\ L[k].n + batchSize < n) =>
                   /\ k < Len(L)
                   /\ L[k+1].svc = "sleep"
             /\ (L[k].svc = "voyage" /\ k > 1) => L[k-1].svc = "sleep"
       /\ (pc = "vec_ret" /\ n >= 1) =>
             /\ Len(Waits) = Chunks(n) - 1
             /\ L[Len(L)].svc = "voyage"
       /\ n <= batchSize => Waits = <<>>

\* a call for more than two chunks of texts returned after two waits
C27_Witness ==
    /\ pc = "vec_ret"
    /\ Len(texts) > 2 * batchSize
    /\ Len(Waits) = 2

(***************************************************************************)
(* Requests are never repeated (fetchCompaniesFromAPI 219-277,              *)
(* vectorizeWithVoyage 415-450, storeInSupabase, main 542-581).             *)
(***************************************************************************)
\* the services whose failure is thrown up to main
FatalSvcs == {"listing", "voyage", "upsert", "select", "upsert_emb"}

\* entries i < j of the log ask the same service for the same thing
SameRequest(L, i, j) ==
    /\ L[i].svc = L[j].svc
    /\ L[i].run = L[j].run
    /\ L[i].svc \in FatalSvcs
    /\ CASE L[i].svc = "listing" -> L[i].arg = L[j].arg
         [] L[i].svc \in {"voyage", "upsert_emb"} -> L[i].n = L[j].n
         [] OTHER -> TRUE

\* C28: no external request is retried: in one run each listing page, each
\* embedding chunk, the entity upsert, the read-back and each embedding batch
\* is requested at most once, and after a failed listing, embedding or store
\* request the run issues no further external request of any kind.
C28_NoRetry ==
    LET L == reqLog
    IN \A i \in 1..Len(L) : \A j \in (i+1)..Len(L) :
          /\ ~SameRequest(L, i, j)
          /\ (L[i].svc \in FatalSvcs /\ ~L[i].ok /\ L[j].run = L[i].run) =>
                L[j].svc = "sleep"

\* a run answered on the listing ended on its failed embedding request
C28_Witness ==
    /\ pc = "exit"
    /\ exitCode = "1"
    /\ Len(RunLog) >= 2
    /\ RunLog[Len(RunLog)].svc = "voyage"
    /\ ~RunLog[Len(RunLog)].ok
    /\ \E i \in 1..Len(RunLog) : RunLog[i].svc = "listing" /\ RunLog[i].ok

(***************************************************************************)
(* The roster run (loadInvestorsFromJSON, processInvestorData, investor     *)
(* storeInSupabase and main).                                               *)
(***************************************************************************)
Roster == loadInvestorsFromJSON(world)

\* C29: the roster fetch yields exactly one entity per investor object of the
\* document, in document order, and the attributes of each entity, as built,
\* as sent to the store and as stored, are the entire source object; if the
\* document is missing or cannot be parsed the run sends no request at all
\* and exits with code 1.
C29_RosterVerbatim ==
    kind = "investor" =>
        /\ HandedOn =>
              /\ Len(companies) = Len(Roster)
              /\ \A i \in 1..Len(companies) :
                    /\ companies[i].details = Roster[i]
                    /\ companies[i].investor_id = Roster[i].id
        /\ \A k \in 1..Len(StoreLog) :
              StoreLog[k].svc = "upsert" =>
                 /\ Len(StoreLog[k].arg) = Len(Roster)
                 /\ \A i \in 1..Len(Roster) :
                       /\ StoreLog[k].arg[i].key = Roster[i].id
                       /\ StoreLog[k].arg[i].cols.details = Roster[i]
        /\ (Len(StoreLog) >= 1 /\ StoreLog[1].ok) =>
              \A i \in 1..Len(Roster) :
                 \E r \in 1..Len(db.investor) :
                    /\ db.investor[r].key = Roster[i].id
                    /\ db.investor[r].cols.details = Roster[i]
        /\ RosterUnreadable(world) =>
              /\ RunLog = <<>>
              /\ companies = <<>>
              /\ pc \in {"main", "load", "exit"}
              /\ pc = "exit" => exitCode = "1"

\* a run over a roster of three investors stored all three
C29_Witness ==
    /\ kind = "investor"
    /\ pc = "store_ret"
    /\ Len(Roster) = 3
    /\ Len(db.investor) = 3

\* a run over an unreadable roster has ended
C29_UnreadableRosterEnded ==
    /\ kind = "investor"
    /\ RosterUnreadable(world)
    /\ ~EnvMissing(env)
    /\ pc = "exit"

(***************************************************************************)
(* Labels of the classification cache and their translation                 *)
(* (fetchIndustryClassifications 53-83, fetchCompaniesFromAPI 344-356).     *)
(***************************************************************************)
\* the name of the entry of language l of an item, NULL without such an entry
NameIn(item, l) ==
    LET k == FindIdx(item.names, LAMBDA n : n.lang = l)
    IN IF item.hasNames /\ k > 0 THEN item.names[k].name ELSE NULL

\* the label of the item is the name of its Finnish entry
TakenFromFinnish(item) == ~Truthy(NameIn(item, "en")) /\ Truthy(NameIn(item, "fi"))

\* the item of the classification response an entry of the cache was built from
SourceItem(code) ==
    LET items == ItemsBeforeThrow(StatResponse(world.stat).data)
    IN items[CHOOSE i \in 1..Len(items) :
                /\ items[i].code = code
                /\ \A j \in 1..Len(items) : items[j].code = code => j <= i]

\* the kept records of a returned fetch, in order
KeptRecords ==
    LET passing == PassingUpTo(Len(LogOf("listing")))
    IN [i \in 1..Len(companies) |-> RecordAt(world, passing[i])]

\* C30: all category names are translated to English: whenever the label
\* cached for an industry code was taken from the Finnish variant of the
\* classification item, the entry is flagged Finnish, and the fetch passes
\* that label through translateToEnglish before storing it in an entity.
C30_FinnishLabelsTranslated ==
    /\ \A c \in DOMAIN classifications :
          TakenFromFinnish(SourceItem(c)) => classifications[c].isFinnish
    /\ FetchReturned =>
          \A i \in 1..Len(companies) :
             LET code == IndustryCodeOf(KeptRecords[i])
             IN (HasEntry(classifications, code) /\ TakenFromFinnish(SourceItem(code))) =>
                   LabelToTranslate(classifications, KeptRecords[i]) # NULL

\* what does hold: the label of an item that has no English entry at all is
\* flagged Finnish and handed to translateToEnglish
C30_LabelsWithoutEnglishEntryTranslated ==
    /\ \A c \in DOMAIN classifications :
          NameIn(SourceItem(c), "en") = NULL => classifications[c].isFinnish
    /\ FetchReturned =>
          \A i \in 1..Len(companies) :
             LET code == IndustryCodeOf(KeptRecords[i])
             IN (/\ HasEntry(classifications, code)
                 /\ NameIn(SourceItem(code), "en") = NULL
                 /\ Truthy(NameIn(SourceItem(code), "fi"))) =>
                   LabelToTranslate(classifications, KeptRecords[i]) # NULL

\* an entity carries the Finnish label of an item whose English entry has no
\* name, and no request for that label was sent to the translation service
C30_FinnishLabelStoredUntranslated ==
    /\ FetchReturned
    /\ \E i \in 1..Len(companies) :
          /\ companies[i].industryCode = "68100"
          /\ companies[i].details.categoryName = "Kiinteistökauppa"
    /\ ~classifications["68100"].isFinnish
    /\ LogOf("deepl") = <<>>

(***************************************************************************)
(* The batch-size setting and the embedding write loop (BATCH_SIZE at line  *)
(* 14, storeInSupabase 514-530).                                            *)
(***************************************************************************)
RECURSIVE RowsSent(_)
\* the rows of the first r embedding requests, in the order sent
RowsSent(r) ==
    IF r = 0 THEN <<>> ELSE RowsSent(r - 1) \o EmbeddingRequests[r].arg

\* every request so far moved the loop forward, and a call that returned has
\* sent the embedding rows exactly once, in order
LoopAdvances ==
    /\ BATCH_SIZE > 0
    /\ Len(EmbeddingRequests) <= Len(embeddingData)
    /\ \A r \in 1..Len(EmbeddingRequests) : Len(EmbeddingRequests[r].arg) > 0
    /\ pc = "store_ret" => RowsSent(Len(EmbeddingRequests)) = embeddingData

\* C31: for every value of BATCH_SIZE (absent, non-numeric, zero, negative or
\* positive) the effective batch size is a positive integer and the
\* embedding write loop ends after finitely many upsert requests, having sent
\* each embedding row exactly once.
C31_BatchLoopTerminates == LoopAdvances

\* what does hold: with BATCH_SIZE absent, non-numeric, zero or positive
C31_UnsignedSettingsTerminate == env.BATCH_SIZE # "-2" => LoopAdvances

\* with BATCH_SIZE=-2 the loop index has gone below 0 and the loop has sent
\* more requests than there are rows, the later ones empty
C31_NegativeSettingLoops ==
    /\ env.BATCH_SIZE = "-2"
    /\ pc = "store_emb"
    /\ si < 0
    /\ Len(embeddingData) > 0
    /\ Len(EmbeddingRequests) > Len(embeddingData)
    /\ EmbeddingRequests[Len(EmbeddingRequests)].arg = <<>>

(***************************************************************************)
(* SpecNormalize: the body of the for loop of fetchCompaniesFromAPI (lines  *)
(* 294-373) applied to one raw record, for every combination of present and *)
(* absent address parts, for the shapes of the names list and for the       *)
(* industry codes, with the classification map loaded or empty and the      *)
(* translation request answered or not.                                     *)
(***************************************************************************)
\* the values a part of an address takes: absent, or one token
PartsOf(token) == {<<>>, <<token>>}

AddressEntries ==
    {Address(1, street, bn, entrance, apt, pc0,
             IF city = <<>> THEN <<>> ELSE << [languageCode |-> "3", city |-> city] >>) :
        street \in PartsOf("Mannerheimintie"), bn \in PartsOf("10"),
        entrance \in PartsOf("B"), apt \in PartsOf("12"),
        pc0 \in PartsOf("00100"), city \in PartsOf("Helsinki")}

NameEntry(type, endDate, name) == [type |-> type, endDate |-> endDate, name |-> name]

\* lists of name entries: none; a closed and an active official name; no
\* official name; an active name after another entry; an active entry that
\* carries no name; entries without names
NamesLists ==
    { <<>>,
      << NameEntry("1", "2022-01-01", "Old Oy"), NameEntry("1", "", "Active Oy") >>,
      << NameEntry("2", "", "Aux Oy"), NameEntry("3", "", "Toinen Oy") >>,
      << NameEntry("2", "", "Aux Oy"), NameEntry("1", "", "Active Oy"),
         NameEntry("1", "", "Later Oy") >>,
      << NameEntry("2", "", "Aux Oy"), NameEntry("1", "", "") >>,
      << NameEntry("2", NULL, NULL), NameEntry("3", "", "Toinen Oy") >>,
      << NameEntry("1", "2022-01-01", "Old Oy") >>,
      << NameEntry("1", "", NULL) >> }

\* industry codes: with an English label, with a Finnish label only (sent to
\* the provider, or plain ASCII), without names, with a blank English name,
\* unknown to the classification, and absent
RecordCodes == {"62010", "43210", "10000", "47110", "70000", "68100", "99999", NULL}

LoadedMap == BuildMap(ItemsBeforeThrow(ClassificationItems))

NormalizeInput(names, addresses, code) ==
    [Template["ok"] EXCEPT !.names = names, !.addresses = addresses,
                           !.mainBusinessLine = IF code = NULL THEN NoBusinessLine
                                                ELSE BusinessLine(code, <<>>)]

\* one iteration of the loop over the kept records
Normalize ==
    /\ pc = "normalize"
    /\ call.state = "called"
    /\ LET cls == IF call.loaded THEN LoadedMap ELSE EmptyMap
           label == LabelToTranslate(cls, call.text)
       IN /\ call' = [call EXCEPT !.state = "returned",
                                  !.result = ProcessCompany(cls, call.text,
                                                            call.answer = "translated")]
          /\ reqLog' = IF label # NULL /\ NeedsRequest(label)
                       THEN Append(reqLog, Entry("deepl", label,
                                                 IF call.answer = "translated"
                                                 THEN "" ELSE call.answer, 0, 0))
                       ELSE reqLog
    /\ pc' = "normalize_ret"
    /\ UNCHANGED <<kind, env, world, run, industryClassifications, classifications,
                   maxResults, allFetchedCompanies, page, companies, texts, allVectors,
                   vi, vectors, idMap, embeddingData, si, db, nextId, deeplCalls,
                   exitCode>>

NormalizeCall(record, answer, loaded) ==
    FreshCall("company", FullEnv, NoWorld, "normalize", 0, <<>>,
              [text |-> record, answer |-> answer, loaded |-> loaded,
               state |-> "called", result |-> NULL])

InitNormalize ==
    \/ \E a \in AddressEntries :
          NormalizeCall(NormalizeInput(Template["ok"].names, <<a>>, "62010"),
                        "translated", TRUE)
    \/ NormalizeCall(NormalizeInput(Template["ok"].names, <<>>, "62010"), "translated", TRUE)
    \/ \E n \in NamesLists :
          NormalizeCall(NormalizeInput(n, <<>>, "62010"), "translated", TRUE)
    \/ \E c \in RecordCodes, answer \in {"translated", "429"}, loaded \in BOOLEAN :
          NormalizeCall(NormalizeInput(Template["ok"].names, <<>>, c), answer, loaded)

NextNormalize == Normalize

SpecNormalize == InitNormalize /\ [][NextNormalize]_vars

RECURSIVE Concat(_)
\* the string a sequence of tokens spells
Concat(tokens) == IF tokens = <<>> THEN "" ELSE Head(tokens) \o Concat(Tail(tokens))

\* the address of the record of a returned call, and the entry it was composed of
ComposedAddress == call.result.details.address

\* C32: for every combination of present and absent parts (street, building
\* number, entrance, apartment number, postal code, city) the composed
\* address contains no double space and no doubled comma and neither starts
\* nor ends with a comma or a space; street "Mannerheimintie", building number
\* "10", postal code "00100", city "Helsinki" without entrance and apartment
\* give exactly "Mannerheimintie10, 00100 Helsinki".
C32_AddressWellFormed ==
    (call.state = "returned" /\ Len(call.text.addresses) = 1) =>
        LET a == ComposedAddress
            e == call.text.addresses[1]
        IN /\ \A i \in 1..(Len(a) - 1) :
                 /\ ~(a[i] = " " /\ a[i+1] = " ")
                 /\ ~(a[i] = "," /\ a[i+1] = ",")
           /\ a # <<>> => a[1] \notin {",", " "} /\ a[Len(a)] \notin {",", " "}
           /\ e = Address(1, <<"Mannerheimintie">>, <<"10">>, <<>>, <<>>, <<"00100">>,
                          << [languageCode |-> "3", city |-> <<"Helsinki">>] >>)
                 => Concat(a) = "Mannerheimintie10, 00100 Helsinki"

\* what does hold: the same, for the entries that carry a postal code or no
\* city
C32_WellFormedWithPostCode ==
    (/\ call.state = "returned"
     /\ Len(call.text.addresses) = 1
     /\ (call.text.addresses[1].postCode # <<>>
            \/ call.text.addresses[1].postOffices = <<>>)) => C32_AddressWellFormed

\* an address without postal code was composed with two spaces before the city
C32_DoubleSpace ==
    /\ call.state = "returned"
    /\ Len(call.text.addresses) = 1
    /\ Concat(ComposedAddress) = "Mannerheimintie10,  Helsinki"

(***************************************************************************)
(* Industry label resolution (fetchCompaniesFromAPI 344-360).               *)
(***************************************************************************)
\* what translateToEnglish may return for a label, however the request ends
TranslationsOf(label) == {translateToEnglishWith(label, a) : a \in AnswerKinds}

\* C33: for a returned entity with industry code c: if c has no entry in the
\* classification map the label is exactly "Industry Code: c"; if c has an
\* entry flagged Finnish with a non-empty label the label is what
\* translateToEnglish returns for the entry's label; otherwise it is the
\* entry's label verbatim; the fallback is used only when the code has no
\* entry at all.
C33_LabelResolution ==
    FetchReturned =>
        \A i \in 1..Len(companies) :
           LET code == IndustryCodeOf(KeptRecords[i])
               label == companies[i].details.categoryName
           IN /\ Truthy(code)
              /\ companies[i].industryCode = code
              /\ ~HasEntry(classifications, code) => label = "Industry Code: " \o code
              /\ HasEntry(classifications, code) =>
                    /\ label # "Industry Code: " \o code
                    /\ IF classifications[code].isFinnish /\ Truthy(classifications[code].name)
                       THEN /\ label \in TranslationsOf(classifications[code].name)
                            /\ NeedsRequest(classifications[code].name) =>
                                  \E k \in 1..Len(reqLog) :
                                     /\ reqLog[k].svc = "deepl"
                                     /\ reqLog[k].arg = classifications[code].name
                                     /\ label = (IF reqLog[k].ok
                                                 THEN DeepL(classifications[code].name)
                                                 ELSE translateFinnishToEnglishBasic(
                                                          classifications[code].name))
                       ELSE label = classifications[code].name

\* a fetch returned an entity with the fallback label, one with a translated
\* label and one with the English label of its entry
C33_Witness ==
    /\ FetchReturned
    /\ \E i \in 1..Len(companies) :
          companies[i].details.categoryName = "Industry Code: 99999"
    /\ \E i \in 1..Len(companies) :
          companies[i].details.categoryName = "Computer programming activities"
    /\ \E i \in 1..Len(companies) :
          companies[i].details.categoryName = "Electrical installation work"

(***************************************************************************)
(* Order of the requests of one fetch (fetchCompaniesFromAPI 210-219,       *)
(* 286-294, 344-360).                                                       *)
(***************************************************************************)
\* positions in the log of the requests to a service
PositionsOf(svc) == {k \in 1..Len(reqLog) : reqLog[k].svc = svc}

\* C34: within one fetch the classification request is issued before the
\* first listing request, and every translation request after the last
\* listing request has returned; translation is attempted only for records
\* that survive filtering and truncation, at most once per returned entity,
\* and never for a record that was filtered out or truncated away.
C34_RequestOrder ==
    LET passing == PassingUpTo(Len(LogOf("listing")))
        kept == Min(maxResults, Len(passing))
    IN /\ \A s \in PositionsOf("stat") :
             /\ s = 1
             /\ \A l \in PositionsOf("listing") : s < l
       /\ PositionsOf("listing") # {} => PositionsOf("stat") # {}
       /\ \A d \in PositionsOf("deepl") :
             /\ pc \in {"fetch_ret"}
             /\ \A l \in PositionsOf("listing") : l < d
             /\ reqLog[d].n \in 1..kept
             /\ ClassOf(world, passing[reqLog[d].n]) \in PassingClasses
             /\ reqLog[d].arg =
                   LabelToTranslate(classifications, RecordAt(world, passing[reqLog[d].n]))
             /\ \A e \in PositionsOf("deepl") : e # d => reqLog[e].n # reqLog[d].n
       /\ pc \in {"fetch_cls", "fetch_loop", "fetch_post"} => PositionsOf("deepl") = {}

\* a fetch that cut the accumulated list returned after translation requests
\* for two of the entities it kept
C34_Witness ==
    /\ FetchReturned
    /\ Len(allFetchedCompanies) > Len(companies)
    /\ Cardinality(PositionsOf("deepl")) >= 2
    /\ Cardinality(PositionsOf("deepl")) < Len(companies)
    /\ Cardinality(PositionsOf("listing")) >= 2

(***************************************************************************)
(* A source without entities (fetchCompaniesFromAPI 281-284, main 551-557,  *)
(* investor main 416-422).                                                  *)
(***************************************************************************)
\* the source of the current run has yielded zero entities: the fetch has
\* returned an empty list, or the roster read is an empty array
ZeroEntities ==
    /\ ~EnvMissing(env)
    /\ IF kind = "company"
       THEN /\ pc \in {"fetch_ret", "exit"}
            /\ companies = <<>>
            /\ \A i \in 1..Len(RunLog) : RunLog[i].svc = "listing" => RunLog[i].ok
       ELSE /\ pc = "exit"
            /\ ~RosterUnreadable(world)
            /\ Roster = <<>>

\* C35: when the source yields zero entities (no listing record passes the
\* filter, or the roster is an empty sequence) the run issues no embedding
\* request and no store request and ends with exit code 0, leaving the store
\* unchanged.
C35_EmptySourceSucceeds ==
    ZeroEntities =>
        /\ \A i \in 1..Len(RunLog) : RunLog[i].svc \notin StoreSvcs \cup {"voyage"}
        /\ texts = <<>>
        /\ pc = "exit" => exitCode = "0"
        /\ pc # "exit" => exitCode = "running"
        /\ db = EmptyDb
        /\ nextId = 1

\* a company run whose listing held no record that passes the filter has
\* ended, after a full page was read
C35_Witness ==
    /\ kind = "company"
    /\ ZeroEntities
    /\ pc = "exit"
    /\ \E i \in 1..Len(RunLog) : RunLog[i].svc = "listing" /\ RunLog[i].res = resultsPerPage

\* an investor run over an empty roster has ended
C35_EmptyRosterEnded ==
    /\ kind = "investor"
    /\ ZeroEntities
    /\ pc = "exit"

(***************************************************************************)
(* Label selection of the classification cache                              *)
(* (fetchIndustryClassifications 49-85).                                    *)
(***************************************************************************)
\* the codes of the items of the response the loop went through
CodedItems ==
    LET items == ItemsBeforeThrow(StatResponse(world.stat).data)
    IN {items[i].code : i \in {j \in 1..Len(items) : Truthy(items[j].code)}}

\* C36: for every classification item with a code the cached label is the
\* English variant's name when such a variant exists, else the Finnish
\* variant's name, else the empty string; items without a code produce no
\* cache entry.
C36_EnglishVariantWins ==
    \A c \in DOMAIN classifications :
       LET en == NameIn(SourceItem(c), "en")
           fi == NameIn(SourceItem(c), "fi")
       IN /\ Truthy(c)
          /\ classifications[c].name =
                (IF en # NULL THEN en ELSE IF fi # NULL THEN fi ELSE "")

\* C36 (amended): for every classification item with a code the cached label
\* is the name of the English variant when that variant carries a non-empty
\* name, else the name of the Finnish variant when that carries one, else
\* the empty string; items without a code produce no cache entry.
C36_LabelSelection ==
    /\ \A m \in {classifications, industryClassifications.map} :
          \A c \in DOMAIN m :
             LET en == NameIn(SourceItem(c), "en")
                 fi == NameIn(SourceItem(c), "fi")
             IN /\ Truthy(c)
                /\ c \in CodedItems
                /\ m[c].name = (IF Truthy(en) THEN en ELSE IF Truthy(fi) THEN fi ELSE "")
    /\ industryClassifications.loaded => DOMAIN industryClassifications.map = CodedItems
    /\ (world.stat \in {"ok", "single"} /\ pc \notin {"fetch_cls", "fetch_err"}) =>
          DOMAIN classifications = CodedItems

\* the cache holds an English label, a Finnish label and an empty label, and
\* no entry for the item without code
C36_Witness ==
    /\ industryClassifications.loaded
    /\ DOMAIN classifications = {"62010", "43210", "10000", "47110", "68100", "70000"}
    /\ classifications["62010"].name = "Computer programming activities"
    /\ classifications["43210"].name = "Sähköasennus"
    /\ classifications["70000"].name = ""

(***************************************************************************)
(* The delay between listing requests (fetchCompaniesFromAPI 255-277).      *)
(***************************************************************************)
\* C37: between any two consecutive listing requests of a fetch a delay of
\* 200 ms elapses, and no delay is inserted after the last listing request,
\* whichever stop condition ended the pagination.
C37_DelayBetweenPages ==
    LET L == reqLog
    IN /\ \A k \in 1..Len(L) :
             /\ L[k].svc = "sleep" =>
                   /\ L[k].arg = PageDelayMs
                   /\ PageDelayMs = 200
                   /\ k > 1
                   /\ L[k-1].svc = "listing"
                   /\ L[k-1].ok
                   /\ pc # "fetch_loop" => \E j \in (k+1)..Len(L) : L[j].svc = "listing"
             /\ (L[k].svc = "listing" /\ \E j \in 1..(k-1) : L[j].svc = "listing") =>
                   /\ L[k-1].svc = "sleep"
                   /\ L[k-2].svc = "listing"
                   /\ L[k-2].arg + 1 = L[k].arg
       /\ pc = "fetch_loop" /\ PositionsOf("listing") # {} => L[Len(L)].svc = "sleep"

\* the pagination ended at the page limit, after 49 delays
C37_Witness ==
    /\ pc = "fetch_ret"
    /\ Len(LogOf("listing")) = PageLimit
    /\ Len(LogOf("sleep")) = PageLimit - 1

(***************************************************************************)
(* Display name selection (fetchCompaniesFromAPI 299-305).                  *)
(***************************************************************************)
\* the first entry of the names list that is official (type '1') and has no
\* end date, 0 if none
FirstActive(names) == FindIdx(names, LAMBDA n : n.type = "1" /\ ~Truthy(n.endDate))

\* C38: the display name of an entity is the name of the first name entry
\* that is marked active (type '1') and has no end date; if there is no such
\* entry (or it carries no name) it is the name of the first listed entry; a
\* record with no usable name gets the placeholder "Unknown", and the display
\* name is never empty or undefined.
C38_DisplayName ==
    call.state = "returned" =>
        LET names == call.text.names
            a == FirstActive(names)
            shown == call.result.name
        IN /\ Truthy(shown)
           /\ call.result.details.name = shown
           /\ shown = (IF a > 0 /\ Truthy(names[a].name) THEN names[a].name
                       ELSE IF Len(names) > 0 /\ Truthy(names[1].name) THEN names[1].name
                       ELSE "Unknown")

\* the active name was taken although another entry is listed first
C38_Witness ==
    /\ call.state = "returned"
    /\ Len(call.text.names) = 3
    /\ call.text.names[1].type = "2"
    /\ call.result.name = "Active Oy"

\* records without names, or whose first entry carries none, got the
\* placeholder
C38_Placeholder ==
    /\ call.state = "returned"
    /\ call.text.names # <<>>
    /\ call.result.name = "Unknown"

====
